---- MODULE Spec2Model ----
(***************************************************************************)
(* The three-stage pipeline of bench/debug/rust/04-concurrency:            *)
(*                                                                         *)
(*   producer -> [input] -> stage1 -> [s1_to_s2] -> stage2 -> [s2_to_s3]   *)
(*                             ^                       |        -> stage3  *)
(*                             +------ [feedback] -----+                   *)
(*                                                                         *)
(* main (main.rs) runs run_pipeline (pipeline.rs) in a thread and waits    *)
(* for its result with a timeout; run_pipeline spawns stage1, stage2 and   *)
(* stage3 (stage.rs), feeds them Records (worker.rs) and joins them.       *)
(* Every thread is a process with a position; a step of a thread is one    *)
(* channel operation together with the local computation before it.       *)
(*                                                                         *)
(* The other programs of bench/debug/rust have their own variables and     *)
(* specifications: the LRU cache of 02-state-mutation (LruSpec), the       *)
(* priority queue and dijkstra of 01-logic-error (PqSpec, DijkstraSpec)    *)
(* and the varints of 05-silent-wrong (VarintSpec).  In the runs of one    *)
(* program the variables of the others keep their idle values.  Record's  *)
(* verify is also called alone (VerifySpec), and the pipeline is also run  *)
(* with as many records as its deadlock needs (ThresholdSpec).             *)
(***************************************************************************)
EXTENDS Integers, Sequences, FiniteSets, TLC

\* ------------------------------------------------------------------ bounds
\* The configurations explored besides the program's own (NUM_RECORDS,
\* CHANNEL_BOUND): num_records in 0..MaxRecords, channel_bound in 1..MaxBound.
MaxRecords == 11
MaxBound == 2
\* The number of records of a run that an induced fault may corrupt.
MaxCorrupted == 1
\* The direct calls of check_completeness explored: the longest slice and the
\* largest id and expected count.
MaxCallLen == 3
MaxCallId == 3
\* The LRU caches explored besides main's: capacities 1..MaxCapacity and
\* values 1..MaxValue.
MaxCapacity == 2
MaxValue == 2
\* A caller's puts stop where the list would need more than MaxSlots slots.
MaxSlots == 3
\* The priority queues explored: items 0..MaxItems-1, priorities 0..MaxPriority.
MaxItems == 3
MaxPriority == 3
\* The graphs explored besides the benchmark's: MaxNodes nodes, weights
\* 1..MaxWeight.
MaxNodes == 3
MaxWeight == 2
\* The varints explored besides main's: the values 0..MaxVarint, and the
\* sequences of up to MaxMany of main's values.
MaxVarint == 300
MaxMany == 2
\* The payloads given to verify directly: up to MaxPayloadLen bytes 0..MaxByte.
MaxPayloadLen == 3
MaxByte == 3

\* ------------------------------------------------------- program constants
CHANNEL_BOUND == 5
\* a run too short to fill the feedback channel: it feeds one record back
NUM_RECORDS_Short == 2 * CHANNEL_BOUND

NUM_RECORDS == 500
MAX_RETRY_STAGE == 4

VARIABLES
  num_records,        \* PipelineConfig.num_records
  channel_bound,      \* PipelineConfig.channel_bound
  pcMain,             \* main: "start", "recv", "success", "timeout", "disconnected"
  resultCh,           \* main's (result_tx, result_rx): the vectors sent and not yet received
  reported,           \* the vector main received, as a sequence of 0 or 1 vectors
  pcP,                \* the pipeline thread (run_pipeline)
  next_i,             \* run_pipeline: the producer loop's i
  heldP,              \* run_pipeline: the record created and not yet sent
  chan,               \* the buffer of each sync_channel
  txOpen,             \* whether each channel's SyncSender is alive
  rxOpen,             \* whether each channel's Receiver is alive
  sent,               \* history: ids sent on each channel, in order
  rcvd,               \* history: ids received from each channel, in order
  pc1, held1, records_sent, feedback_processed,   \* stage1
  pc2, held2, forwarded, feedback_sent,           \* stage2
  pc3, results, integrity_errors,                 \* stage3
  arg_records,        \* a direct call of check_completeness: its records,
  arg_expected_count, \*   its expected_count,
  returned,           \*   and what it returned, as a sequence of 0 or 1 results
  cache,              \* 02-state-mutation: main's LRUCache
  got,                \*   what the last get returned, as a sequence of 0 or 1 values
  reference,          \*   history: the entries a reference LRU cache holds, most recent first
  ref_got,            \*   history: what the reference cache's last get returned
  script_pc,          \*   main: the next line of the scripted pattern (0: no script)
  hits, misses, errors, \* main's counters
  pq,                 \* 01-logic-error: a MinPriorityQueue
  pq_op,              \*   the last call made on it ("none": no queue)
  extracted,          \*   what that call returned, if it was extract_min
  graph,              \* 01-logic-error: dijkstra's graph, as its adjacency lists,
  source, target,     \*   its source and target,
  dj,                 \*   its locals dist, prev and visited (its pq is pq),
  dj_pc,              \*   its position ("none": not called)
  dj_result,          \*   and what it returned, as a sequence of 0 or 1 results
  original,           \* 05-silent-wrong: main's value,
  encoded, decoded,   \*   its encoding and what that decodes to (0 or 1 results)
  values,             \*   a caller's values for encode_many,
  stream,             \*   their encoding
  decoded_values,     \*   and what decode_many makes of it
  vi_pc               \*   the position in the round trip ("none": not run)

cfgVars  == <<num_records, channel_bound>>
mainVars == <<pcMain, resultCh, reported>>
prodVars == <<pcP, next_i, heldP>>
chanVars == <<chan, txOpen, rxOpen, sent, rcvd>>
s1Vars   == <<pc1, held1, records_sent, feedback_processed>>
s2Vars   == <<pc2, held2, forwarded, feedback_sent>>
s3Vars   == <<pc3, results, integrity_errors>>
callVars == <<arg_records, arg_expected_count, returned>>
pipeVars == <<cfgVars, mainVars, prodVars, chanVars, s1Vars, s2Vars, s3Vars>>
lruVars  == <<cache, got, reference, ref_got, script_pc, hits, misses, errors>>
pqVars   == <<pq, pq_op, extracted>>
djVars   == <<graph, source, target, dj, dj_pc, dj_result>>
viVars   == <<original, encoded, decoded, values, stream, decoded_values, vi_pc>>
\* the state of everything but the pipeline
otherVars == <<callVars, lruVars, pqVars, djVars, viVars>>
vars == <<pipeVars, otherVars>>

Channels == {"input", "s1_to_s2", "s2_to_s3", "feedback"}

\* ---------------------------------------------------------------- worker.rs
\* Strings are sequences of bytes (ASCII codes).
StrData      == <<100, 97, 116, 97, 45>>                       \* "data-"
StrStage1    == <<115, 116, 97, 103, 101, 49>>                 \* "stage1"
StrStage1Redo == <<115, 116, 97, 103, 101, 49, 45, 114, 101, 100, 111>>  \* "stage1-redo"
StrStage2    == <<115, 116, 97, 103, 101, 50>>                 \* "stage2"

\* format!("{}", n) of an unsigned integer: its decimal digits.
RECURSIVE FormatDec(_)
FormatDec(n) ==
  IF n < 10 THEN <<48 + n>> ELSE FormatDec(n \div 10) \o <<48 + (n % 10)>>

\* format!("{:04}", n): the decimal digits, padded with '0' to width 4.
RECURSIVE ZeroPad(_, _)
ZeroPad(s, width) == IF Len(s) >= width THEN s ELSE ZeroPad(<<48>> \o s, width)

FormatPad4(n) == ZeroPad(FormatDec(n), 4)

\* data.bytes().fold(0u32, |acc, b| acc.wrapping_add(b as u32)): the sum of
\* the bytes data[lo..hi].  (The range is split in two only to keep TLC's
\* evaluation shallow.)  wrapping_add wraps at 2^32; a payload here is under
\* a hundred bytes and sums to far less than that, so the sum is the checksum.
RECURSIVE ByteSum(_, _, _)
ByteSum(data, lo, hi) ==
  IF lo > hi THEN 0
  ELSE IF lo = hi THEN data[lo]
  ELSE ByteSum(data, lo, (lo + hi) \div 2) + ByteSum(data, (lo + hi) \div 2 + 1, hi)

\* a checksum that weighs each byte by its position
compute_checksum_Positional(data) ==
  ByteSum([k \in 1..Len(data) |-> k * data[k]], 1, Len(data))

compute_checksum(data) == ByteSum(data, 1, Len(data))

\* Record::new(id)
RecordNew(id) ==
  LET payload == StrData \o FormatPad4(id)
  IN  [id |-> id, payload |-> payload, stage |-> 0,
       checksum |-> compute_checksum(payload), retry_count |-> 0]

\* an advance that counts a step twice
advance_Twice(record) == [record EXCEPT !.stage = @ + 2]

\* Record::advance
advance(record) == [record EXCEPT !.stage = @ + 1]

\* Record::mark_retry
mark_retry(record) == [record EXCEPT !.retry_count = @ + 1]

\* Record::verify
verify(record) == compute_checksum(record.payload) = record.checksum

\* do_work without `record.checksum = compute_checksum(&record.payload)`
do_work_StaleChecksum(record, stage_name) ==
  advance([record EXCEPT !.payload = @ \o <<32, 91>> \o stage_name
                   \o <<58, 115>> \o FormatDec(record.stage)
                   \o <<58, 114>> \o FormatDec(record.retry_count) \o <<93>>])

\* do_work: payload = format!("{} [{}:s{}:r{}]", ...); checksum; advance.
do_work(record, stage_name) ==
  LET payload == record.payload \o <<32, 91>> \o stage_name
                   \o <<58, 115>> \o FormatDec(record.stage)
                   \o <<58, 114>> \o FormatDec(record.retry_count) \o <<93>>
  IN  advance([record EXCEPT !.payload = payload,
                             !.checksum = compute_checksum(payload)])

\* validate_batch: (number of valid records, ids of the invalid ones in order)
IsInvalid(record) == ~verify(record)

InvalidIds(records) ==
  LET invalid == SelectSeq(records, IsInvalid)
  IN  [k \in 1..Len(invalid) |-> invalid[k].id]

validate_batch(records) ==
  <<Len(records) - Len(InvalidIds(records)), InvalidIds(records)>>

\* a `seen` that only flags an id as present instead of counting its records
Seen_Flag(records, id) ==
  IF \E k \in 1..Len(records) : records[k].id = id THEN 1 ELSE 0

\* check_completeness: seen[id] counts the records of each id <= expected_count;
\* missing are the ids of 1..=expected_count seen zero times and duplicates
\* those seen more than once, both in increasing order.
Seen(records, id) == Cardinality({k \in 1..Len(records) : records[k].id = id})

check_completeness(records, expected_count) ==
  LET ids == [id \in 1..expected_count |-> id]
      IsMissing(id) == Seen(records, id) = 0
      IsDuplicate(id) == Seen(records, id) > 1
  IN  <<SelectSeq(ids, IsMissing), SelectSeq(ids, IsDuplicate)>>

\* ---------------------------------------------------------------- channels
\* a channel that accepts one item more than its bound
Full_OneMore(ch) == Len(chan[ch]) > channel_bound

\* std::sync::mpsc::sync_channel(bound): a FIFO buffer of at most bound items.
Full(ch) == Len(chan[ch]) >= channel_bound

\* send appends at the back of the buffer
Pushed(q, r) == Append(q, r)

\* a recv that takes the newest item, and a recv that leaves the item buffered
Front_Newest(q) == q[Len(q)]
Popped_Kept(q) == q

\* recv takes the item at the front of the buffer
Front(q) == Head(q)
Popped(q) == Tail(q)

\* SyncSender::send returns once the item is buffered (blocks while full) or
\* with an error when the receiver is gone.
CanSend(ch) == ~rxOpen[ch] \/ ~Full(ch)

\* a recv that reports the end of the stream whenever the buffer is empty
CanRecv_NeverBlocks(ch) == TRUE

\* Receiver::recv (the iterator's next) returns an item when one is buffered,
\* or None when the buffer is empty and the sender is gone; blocks otherwise.
CanRecv(ch) == chan[ch] # <<>> \/ ~txOpen[ch]

\* a close that discards what is buffered: recv reports the end of the stream
\* as soon as the sender is gone
YieldsItem_OnlyWhileOpen(ch) == chan[ch] # <<>> /\ txOpen[ch]

\* Whether that recv yields an item (a buffered item is delivered even when
\* the sender is gone) rather than the end of the stream.
YieldsItem(ch) == chan[ch] # <<>>

Send(ch, r) ==
  /\ chan' = [chan EXCEPT ![ch] = Pushed(@, r)]
  /\ sent' = [sent EXCEPT ![ch] = Append(@, r.id)]
  /\ UNCHANGED <<rcvd, txOpen, rxOpen>>

Recv(ch) ==
  /\ chan' = [chan EXCEPT ![ch] = Popped(@)]
  /\ rcvd' = [rcvd EXCEPT ![ch] = Append(@, Front(chan[ch]).id)]
  /\ UNCHANGED <<sent, txOpen, rxOpen>>

\* Dropping channel ends: the senders in txs and the receivers in rxs.
Drop(txs, rxs) ==
  /\ txOpen' = [c \in Channels |-> txOpen[c] /\ c \notin txs]
  /\ rxOpen' = [c \in Channels |-> rxOpen[c] /\ c \notin rxs]
  /\ UNCHANGED <<chan, sent, rcvd>>

\* process::exit(1) ends every thread.
ProcessAlive == pcMain \notin {"timeout", "disconnected"}

\* ------------------------------------------------------------------ stage.rs
\* a retry rule that feeds back only every hundredth record
needs_retry_Sparse(record) == record.id % 100 = 0 /\ record.stage < MAX_RETRY_STAGE

\* a retry rule evaluated on the stage the record had before stage2's do_work
needs_retry_BeforeWork(record) ==
  record.id % 10 = 0 /\ record.stage - 1 < MAX_RETRY_STAGE

\* a retry rule without the cap on the stage
needs_retry_NoCap(record) == record.id % 10 = 0

\* a retry rule that feeds back every fifth record
needs_retry_EveryFifth(record) == record.id % 5 = 0 /\ record.stage < MAX_RETRY_STAGE

\* a retry rule whose cap is one stage higher
needs_retry_HigherCap(record) ==
  record.id % 10 = 0 /\ record.stage < MAX_RETRY_STAGE + 1

\* needs_retry = record.id % 10 == 0 && record.stage < MAX_RETRY_STAGE
needs_retry(record) == record.id % 10 = 0 /\ record.stage < MAX_RETRY_STAGE

\* A thread that panics unwinds: it drops every channel end it owns.
Stage1Ends == <<{"s1_to_s2"}, {"input", "feedback"}>>
Stage2Ends == <<{"s2_to_s3", "feedback"}, {"s1_to_s2"}>>

\* a stage1 without its feedback loop: it drops its output and returns as
\* soon as the primary input is closed and drained
S1PrimaryNext_SkipFeedback ==
  /\ ProcessAlive /\ pc1 = "primary_next" /\ CanRecv("input")
  /\ IF YieldsItem("input")
     THEN /\ held1' = <<do_work(Front(chan["input"]), StrStage1)>>
          /\ Recv("input")
          /\ pc1' = "primary_send"
     ELSE /\ Drop({"s1_to_s2"}, {"input", "feedback"})
          /\ pc1' = "done"
          /\ UNCHANGED held1
  /\ UNCHANGED <<records_sent, feedback_processed>>
  /\ UNCHANGED <<otherVars, cfgVars, mainVars, prodVars, s2Vars, s3Vars>>

\* a stage1 that drops its output at the end of the primary loop and still
\* runs the feedback loop
S1PrimaryNext_DropsOutputEarly ==
  /\ ProcessAlive /\ pc1 = "primary_next" /\ CanRecv("input")
  /\ IF YieldsItem("input")
     THEN /\ held1' = <<do_work(Front(chan["input"]), StrStage1)>>
          /\ Recv("input")
          /\ pc1' = "primary_send"
     ELSE /\ Drop({"s1_to_s2"}, {"input"})
          /\ pc1' = "feedback_next"
          /\ UNCHANGED held1
  /\ UNCHANGED <<records_sent, feedback_processed>>
  /\ UNCHANGED <<otherVars, cfgVars, mainVars, prodVars, s2Vars, s3Vars>>

\* a primary loop that takes a record waiting in the feedback channel first
S1PrimaryNext_FeedbackFirst ==
  /\ ProcessAlive /\ pc1 = "primary_next"
  /\ IF YieldsItem("feedback")
     THEN /\ held1' = <<do_work(mark_retry(Front(chan["feedback"])), StrStage1Redo)>>
          /\ Recv("feedback")
          /\ pc1' = "primary_send"
     ELSE /\ CanRecv("input")
          /\ IF YieldsItem("input")
             THEN /\ held1' = <<do_work(Front(chan["input"]), StrStage1)>>
                  /\ Recv("input")
                  /\ pc1' = "primary_send"
             ELSE /\ Drop({}, {"input"})
                  /\ pc1' = "feedback_next"
                  /\ UNCHANGED held1
  /\ UNCHANGED <<records_sent, feedback_processed>>
  /\ UNCHANGED <<otherVars, cfgVars, mainVars, prodVars, s2Vars, s3Vars>>

\* stage1, primary loop: `for mut record in input` takes the next record and
\* runs do_work on it; when the input is closed and drained the loop ends
\* (dropping the receiver it consumed) and the feedback loop begins.
S1PrimaryNext ==
  /\ ProcessAlive /\ pc1 = "primary_next" /\ CanRecv("input")
  /\ IF YieldsItem("input")
     THEN /\ held1' = <<do_work(Front(chan["input"]), StrStage1)>>
          /\ Recv("input")
          /\ pc1' = "primary_send"
     ELSE /\ Drop({}, {"input"})
          /\ pc1' = "feedback_next"
          /\ UNCHANGED held1
  /\ UNCHANGED <<records_sent, feedback_processed>>
  /\ UNCHANGED <<otherVars, cfgVars, mainVars, prodVars, s2Vars, s3Vars>>

\* output.send(record).expect(..); records_sent += 1
S1PrimarySend ==
  /\ ProcessAlive /\ pc1 = "primary_send" /\ CanSend("s1_to_s2")
  /\ IF rxOpen["s1_to_s2"]
     THEN /\ Send("s1_to_s2", held1[1])
          /\ records_sent' = records_sent + 1
          /\ pc1' = "primary_next"
     ELSE /\ Drop(Stage1Ends[1], Stage1Ends[2])
          /\ pc1' = "panicked"
          /\ UNCHANGED records_sent
  /\ held1' = <<>>
  /\ UNCHANGED feedback_processed
  /\ UNCHANGED <<otherVars, cfgVars, mainVars, prodVars, s2Vars, s3Vars>>

\* a feedback loop that marks the retry only after the transform
S1FeedbackNext_MarksAfter ==
  /\ ProcessAlive /\ pc1 = "feedback_next" /\ CanRecv("feedback")
  /\ IF YieldsItem("feedback")
     THEN /\ held1' = <<mark_retry(do_work(Front(chan["feedback"]), StrStage1Redo))>>
          /\ Recv("feedback")
          /\ pc1' = "feedback_send"
     ELSE /\ Drop({"s1_to_s2"}, {"feedback"})
          /\ pc1' = "done"
          /\ UNCHANGED held1
  /\ UNCHANGED <<records_sent, feedback_processed>>
  /\ UNCHANGED <<otherVars, cfgVars, mainVars, prodVars, s2Vars, s3Vars>>

\* a feedback loop that ends as soon as it finds the feedback channel empty
S1FeedbackNext_ReturnsWhenEmpty ==
  /\ ProcessAlive /\ pc1 = "feedback_next"
  /\ IF YieldsItem("feedback")
     THEN /\ held1' = <<do_work(mark_retry(Front(chan["feedback"])), StrStage1Redo)>>
          /\ Recv("feedback")
          /\ pc1' = "feedback_send"
     ELSE /\ Drop({"s1_to_s2"}, {"feedback"})
          /\ pc1' = "done"
          /\ UNCHANGED held1
  /\ UNCHANGED <<records_sent, feedback_processed>>
  /\ UNCHANGED <<otherVars, cfgVars, mainVars, prodVars, s2Vars, s3Vars>>

\* stage1, feedback loop: `for mut record in feedback_rx` takes the next
\* record, marks the retry and runs do_work; when the feedback channel is
\* closed and drained the loop ends, output is dropped and stage1 returns.
S1FeedbackNext ==
  /\ ProcessAlive /\ pc1 = "feedback_next" /\ CanRecv("feedback")
  /\ IF YieldsItem("feedback")
     THEN /\ held1' = <<do_work(mark_retry(Front(chan["feedback"])), StrStage1Redo)>>
          /\ Recv("feedback")
          /\ pc1' = "feedback_send"
     ELSE /\ Drop({"s1_to_s2"}, {"feedback"})
          /\ pc1' = "done"
          /\ UNCHANGED held1
  /\ UNCHANGED <<records_sent, feedback_processed>>
  /\ UNCHANGED <<otherVars, cfgVars, mainVars, prodVars, s2Vars, s3Vars>>

\* output.send(record).expect(..); feedback_processed += 1
S1FeedbackSend ==
  /\ ProcessAlive /\ pc1 = "feedback_send" /\ CanSend("s1_to_s2")
  /\ IF rxOpen["s1_to_s2"]
     THEN /\ Send("s1_to_s2", held1[1])
          /\ feedback_processed' = feedback_processed + 1
          /\ pc1' = "feedback_next"
     ELSE /\ Drop(Stage1Ends[1], Stage1Ends[2])
          /\ pc1' = "panicked"
          /\ UNCHANGED feedback_processed
  /\ held1' = <<>>
  /\ UNCHANGED records_sent
  /\ UNCHANGED <<otherVars, cfgVars, mainVars, prodVars, s2Vars, s3Vars>>

Stage1 == S1PrimaryNext \/ S1PrimarySend \/ S1FeedbackNext \/ S1FeedbackSend

\* a stage2 that returns without dropping feedback_tx
S2Next_KeepsFeedback ==
  /\ ProcessAlive /\ pc2 = "next" /\ CanRecv("s1_to_s2")
  /\ IF YieldsItem("s1_to_s2")
     THEN /\ held2' = <<do_work(Front(chan["s1_to_s2"]), StrStage2)>>
          /\ Recv("s1_to_s2")
          /\ pc2' = IF needs_retry(held2'[1]) THEN "send_feedback" ELSE "send_forward"
     ELSE /\ Drop({"s2_to_s3"}, {"s1_to_s2"})
          /\ pc2' = "done"
          /\ UNCHANGED held2
  /\ UNCHANGED <<forwarded, feedback_sent>>
  /\ UNCHANGED <<otherVars, cfgVars, mainVars, prodVars, s1Vars, s3Vars>>

\* stage2: `for mut record in input` takes the next record, runs do_work and
\* picks the route; when the input is closed and drained the loop ends,
\* feedback_tx and output are dropped and stage2 returns.
S2Next ==
  /\ ProcessAlive /\ pc2 = "next" /\ CanRecv("s1_to_s2")
  /\ IF YieldsItem("s1_to_s2")
     THEN /\ held2' = <<do_work(Front(chan["s1_to_s2"]), StrStage2)>>
          /\ Recv("s1_to_s2")
          /\ pc2' = IF needs_retry(held2'[1]) THEN "send_feedback" ELSE "send_forward"
     ELSE /\ Drop({"feedback", "s2_to_s3"}, {"s1_to_s2"})
          /\ pc2' = "done"
          /\ UNCHANGED held2
  /\ UNCHANGED <<forwarded, feedback_sent>>
  /\ UNCHANGED <<otherVars, cfgVars, mainVars, prodVars, s1Vars, s3Vars>>

\* feedback_tx.send(record).expect(..); feedback_sent += 1
S2SendFeedback ==
  /\ ProcessAlive /\ pc2 = "send_feedback" /\ CanSend("feedback")
  /\ IF rxOpen["feedback"]
     THEN /\ Send("feedback", held2[1])
          /\ feedback_sent' = feedback_sent + 1
          /\ pc2' = "next"
     ELSE /\ Drop(Stage2Ends[1], Stage2Ends[2])
          /\ pc2' = "panicked"
          /\ UNCHANGED feedback_sent
  /\ held2' = <<>>
  /\ UNCHANGED forwarded
  /\ UNCHANGED <<otherVars, cfgVars, mainVars, prodVars, s1Vars, s3Vars>>

\* output.send(record).expect(..); forwarded += 1
S2SendForward ==
  /\ ProcessAlive /\ pc2 = "send_forward" /\ CanSend("s2_to_s3")
  /\ IF rxOpen["s2_to_s3"]
     THEN /\ Send("s2_to_s3", held2[1])
          /\ forwarded' = forwarded + 1
          /\ pc2' = "next"
     ELSE /\ Drop(Stage2Ends[1], Stage2Ends[2])
          /\ pc2' = "panicked"
          /\ UNCHANGED forwarded
  /\ held2' = <<>>
  /\ UNCHANGED feedback_sent
  /\ UNCHANGED <<otherVars, cfgVars, mainVars, prodVars, s1Vars, s3Vars>>

Stage2 == S2Next \/ S2SendFeedback \/ S2SendForward

\* a stage3 that counts a record that does not verify but does not keep it
S3Next_DropsInvalid ==
  /\ ProcessAlive /\ pc3 = "next" /\ CanRecv("s2_to_s3")
  /\ IF YieldsItem("s2_to_s3")
     THEN /\ integrity_errors' =
               IF verify(Front(chan["s2_to_s3"]))
               THEN integrity_errors ELSE integrity_errors + 1
          /\ results' = IF verify(Front(chan["s2_to_s3"]))
                        THEN Append(results, Front(chan["s2_to_s3"])) ELSE results
          /\ Recv("s2_to_s3")
          /\ UNCHANGED pc3
     ELSE /\ Drop({}, {"s2_to_s3"})
          /\ pc3' = "done"
          /\ UNCHANGED <<results, integrity_errors>>
  /\ UNCHANGED <<otherVars, cfgVars, mainVars, prodVars, s1Vars, s2Vars>>

\* a stage3 that returns as soon as it finds its input empty, closed or not
S3Next_ReturnsWhenEmpty ==
  /\ ProcessAlive /\ pc3 = "next"
  /\ IF YieldsItem("s2_to_s3")
     THEN /\ integrity_errors' =
               IF verify(Front(chan["s2_to_s3"]))
               THEN integrity_errors ELSE integrity_errors + 1
          /\ results' = Append(results, Front(chan["s2_to_s3"]))
          /\ Recv("s2_to_s3")
          /\ UNCHANGED pc3
     ELSE /\ Drop({}, {"s2_to_s3"})
          /\ pc3' = "done"
          /\ UNCHANGED <<results, integrity_errors>>
  /\ UNCHANGED <<otherVars, cfgVars, mainVars, prodVars, s1Vars, s2Vars>>

\* a stage3 that keeps its results in the order of the ids
InsertById(records, record) ==
  SelectSeq(records, LAMBDA r : r.id <= record.id) \o <<record>>
    \o SelectSeq(records, LAMBDA r : r.id > record.id)

S3Next_KeepsIdOrder ==
  /\ ProcessAlive /\ pc3 = "next" /\ CanRecv("s2_to_s3")
  /\ IF YieldsItem("s2_to_s3")
     THEN /\ integrity_errors' =
               IF verify(Front(chan["s2_to_s3"]))
               THEN integrity_errors ELSE integrity_errors + 1
          /\ results' = InsertById(results, Front(chan["s2_to_s3"]))
          /\ Recv("s2_to_s3")
          /\ UNCHANGED pc3
     ELSE /\ Drop({}, {"s2_to_s3"})
          /\ pc3' = "done"
          /\ UNCHANGED <<results, integrity_errors>>
  /\ UNCHANGED <<otherVars, cfgVars, mainVars, prodVars, s1Vars, s2Vars>>

\* a stage3 that pushes every record twice
S3Next_PushesTwice ==
  /\ ProcessAlive /\ pc3 = "next" /\ CanRecv("s2_to_s3")
  /\ IF YieldsItem("s2_to_s3")
     THEN /\ integrity_errors' =
               IF verify(Front(chan["s2_to_s3"]))
               THEN integrity_errors ELSE integrity_errors + 1
          /\ results' = Append(Append(results, Front(chan["s2_to_s3"])),
                               Front(chan["s2_to_s3"]))
          /\ Recv("s2_to_s3")
          /\ UNCHANGED pc3
     ELSE /\ Drop({}, {"s2_to_s3"})
          /\ pc3' = "done"
          /\ UNCHANGED <<results, integrity_errors>>
  /\ UNCHANGED <<otherVars, cfgVars, mainVars, prodVars, s1Vars, s2Vars>>

\* stage3: `for record in input` takes the next record, verifies it and
\* pushes it; when the input is closed and drained stage3 returns results.
S3Next ==
  /\ ProcessAlive /\ pc3 = "next" /\ CanRecv("s2_to_s3")
  /\ IF YieldsItem("s2_to_s3")
     THEN /\ integrity_errors' =
               IF verify(Front(chan["s2_to_s3"]))
               THEN integrity_errors ELSE integrity_errors + 1
          /\ results' = Append(results, Front(chan["s2_to_s3"]))
          /\ Recv("s2_to_s3")
          /\ UNCHANGED pc3
     ELSE /\ Drop({}, {"s2_to_s3"})
          /\ pc3' = "done"
          /\ UNCHANGED <<results, integrity_errors>>
  /\ UNCHANGED <<otherVars, cfgVars, mainVars, prodVars, s1Vars, s2Vars>>

Stage3 == S3Next

\* --------------------------------------------------------------- pipeline.rs
\* run_pipeline spawns the three stage threads, in order.
PSpawnS1 ==
  /\ ProcessAlive /\ pcP = "spawn_s1"
  /\ pc1' = "primary_next" /\ pcP' = "spawn_s2"
  /\ UNCHANGED <<held1, records_sent, feedback_processed, next_i, heldP>>
  /\ UNCHANGED <<otherVars, cfgVars, mainVars, chanVars, s2Vars, s3Vars>>

PSpawnS2 ==
  /\ ProcessAlive /\ pcP = "spawn_s2"
  /\ pc2' = "next" /\ pcP' = "spawn_s3"
  /\ UNCHANGED <<held2, forwarded, feedback_sent, next_i, heldP>>
  /\ UNCHANGED <<otherVars, cfgVars, mainVars, chanVars, s1Vars, s3Vars>>

PSpawnS3 ==
  /\ ProcessAlive /\ pcP = "spawn_s3"
  /\ pc3' = "next" /\ pcP' = "produce"
  /\ UNCHANGED <<results, integrity_errors, next_i, heldP>>
  /\ UNCHANGED <<otherVars, cfgVars, mainVars, chanVars, s1Vars, s2Vars>>

\* for i in 1..=config.num_records { let record = Record::new(i); ..
PProduce ==
  /\ ProcessAlive /\ pcP = "produce"
  /\ IF next_i <= num_records
     THEN heldP' = <<RecordNew(next_i)>> /\ pcP' = "send"
     ELSE heldP' = heldP /\ pcP' = "close"
  /\ UNCHANGED next_i
  /\ UNCHANGED <<otherVars, cfgVars, mainVars, chanVars, s1Vars, s2Vars, s3Vars>>

\* .. input_tx.send(record).expect("producer send failed"); }
PSend ==
  /\ ProcessAlive /\ pcP = "send" /\ CanSend("input")
  /\ IF rxOpen["input"]
     THEN /\ Send("input", heldP[1])
          /\ next_i' = next_i + 1
          /\ pcP' = "produce"
     ELSE /\ Drop({"input"}, {})
          /\ pcP' = "panicked"
          /\ UNCHANGED next_i
  /\ heldP' = <<>>
  /\ UNCHANGED <<otherVars, cfgVars, mainVars, s1Vars, s2Vars, s3Vars>>

\* a run_pipeline that goes on to s2.join() without waiting for stage1
PFinish_SkipsJoin ==
  /\ ProcessAlive
  /\ \/ /\ pcP = "close"
        /\ Drop({"input"}, {})
        /\ pcP' = "join_s1"
        /\ UNCHANGED resultCh
     \/ /\ pcP = "join_s1"
        /\ pcP' = IF pc1 # "panicked" THEN "join_s2" ELSE "panicked"
        /\ UNCHANGED <<chanVars, resultCh>>
     \/ /\ pcP = "join_s2" /\ pc2 \in {"done", "panicked"}
        /\ pcP' = IF pc2 = "done" THEN "join_s3" ELSE "panicked"
        /\ UNCHANGED <<chanVars, resultCh>>
     \/ /\ pcP = "join_s3" /\ pc3 \in {"done", "panicked"}
        /\ IF pc3 = "done"
           THEN resultCh' = Append(resultCh, results) /\ pcP' = "done"
           ELSE resultCh' = resultCh /\ pcP' = "panicked"
        /\ UNCHANGED chanVars
  /\ UNCHANGED <<next_i, heldP, pcMain, reported>>
  /\ UNCHANGED <<otherVars, cfgVars, s1Vars, s2Vars, s3Vars>>

\* drop(input_tx); s1.join().expect(..); s2.join().expect(..);
\* let results = s3.join().expect(..); results -- and, back in main's
\* closure, result_tx.send(results).  A join returns when its thread has
\* ended, with an error (and so a panic here) when that thread panicked.
PFinish ==
  /\ ProcessAlive
  /\ \/ /\ pcP = "close"
        /\ Drop({"input"}, {})
        /\ pcP' = "join_s1"
        /\ UNCHANGED resultCh
     \/ /\ pcP = "join_s1" /\ pc1 \in {"done", "panicked"}
        /\ pcP' = IF pc1 = "done" THEN "join_s2" ELSE "panicked"
        /\ UNCHANGED <<chanVars, resultCh>>
     \/ /\ pcP = "join_s2" /\ pc2 \in {"done", "panicked"}
        /\ pcP' = IF pc2 = "done" THEN "join_s3" ELSE "panicked"
        /\ UNCHANGED <<chanVars, resultCh>>
     \/ /\ pcP = "join_s3" /\ pc3 \in {"done", "panicked"}
        /\ IF pc3 = "done"
           THEN resultCh' = Append(resultCh, results) /\ pcP' = "done"
           ELSE resultCh' = resultCh /\ pcP' = "panicked"
        /\ UNCHANGED chanVars
  /\ UNCHANGED <<next_i, heldP, pcMain, reported>>
  /\ UNCHANGED <<otherVars, cfgVars, s1Vars, s2Vars, s3Vars>>

Pipeline == PSpawnS1 \/ PSpawnS2 \/ PSpawnS3 \/ PProduce \/ PSend \/ PFinish

\* ------------------------------------------------------------------- main.rs
\* thread::spawn(move || { let results = pipeline::run_pipeline(); .. })
MainSpawn ==
  /\ pcMain = "start"
  /\ pcMain' = "recv" /\ pcP' = "spawn_s1"
  /\ UNCHANGED <<resultCh, reported, next_i, heldP>>
  /\ UNCHANGED <<otherVars, cfgVars, chanVars, s1Vars, s2Vars, s3Vars>>

\* Whether each thread of the pipeline can take a step: it has been spawned,
\* has not ended, and the channel operation it is at does not block.
PipelineCanStep ==
  \/ pcP \in {"spawn_s1", "spawn_s2", "spawn_s3", "produce", "close"}
  \/ pcP = "send" /\ CanSend("input")
  \/ pcP = "join_s1" /\ pc1 \in {"done", "panicked"}
  \/ pcP = "join_s2" /\ pc2 \in {"done", "panicked"}
  \/ pcP = "join_s3" /\ pc3 \in {"done", "panicked"}

Stage1CanStep ==
  \/ pc1 = "primary_next" /\ CanRecv("input")
  \/ pc1 = "feedback_next" /\ CanRecv("feedback")
  \/ pc1 \in {"primary_send", "feedback_send"} /\ CanSend("s1_to_s2")

Stage2CanStep ==
  \/ pc2 = "next" /\ CanRecv("s1_to_s2")
  \/ pc2 = "send_feedback" /\ CanSend("feedback")
  \/ pc2 = "send_forward" /\ CanSend("s2_to_s3")

Stage3CanStep == pc3 = "next" /\ CanRecv("s2_to_s3")

\* a recv without a timeout
TimerElapsed_Never == FALSE

\* The 5 s of recv_timeout are long against the steps of the threads: the
\* timer runs out only once no thread of the pipeline can take a step.
TimerElapsed ==
  ~(PipelineCanStep \/ Stage1CanStep \/ Stage2CanStep \/ Stage3CanStep)

\* match result_rx.recv_timeout(Duration::from_secs(5)): Ok(results) when a
\* result was sent, Disconnected when result_tx was dropped without one (the
\* pipeline thread panicked), Timeout when the timer runs out first.
MainRecvTimeout ==
  /\ pcMain = "recv"
  /\ IF resultCh # <<>>
     THEN /\ reported' = <<Head(resultCh)>>
          /\ resultCh' = Tail(resultCh)
          /\ pcMain' = "success"
     ELSE /\ UNCHANGED <<reported, resultCh>>
          /\ IF pcP = "panicked"
             THEN pcMain' = "disconnected"
             ELSE TimerElapsed /\ pcMain' = "timeout"
  /\ UNCHANGED <<otherVars, cfgVars, prodVars, chanVars, s1Vars, s2Vars, s3Vars>>

\* a main that tells its caller the exit status alone
MainReports_StatusOnly(outcome) ==
  IF outcome = "success" THEN <<0>> ELSE <<1>>

\* What main's caller sees of each outcome: the exit status (main returns
\* after report_results, or calls process::exit(1)) and the first line
\* written to stdout or stderr.
MainReports(outcome) ==
  CASE outcome = "success" -> <<0, "Processed {} records">>
    [] outcome = "timeout" -> <<1, "ERROR: Pipeline deadlocked (timed out after 5s)">>
    [] outcome = "disconnected" -> <<1, "ERROR: Pipeline thread disconnected unexpectedly">>

Main == MainSpawn \/ MainRecvTimeout

\* ------------------------------------------- 02-state-mutation: the LRU cache
\* An Option<usize> is a slot number, NoneIdx for None; slots are numbered
\* from 1 (slot k is nodes[k-1] of the Vec).  An Option of anything else is a
\* sequence of 0 or 1 elements.
NoneIdx == 0

\* The keys of the caches explored besides main's.
LruKeys == {"A", "B", "C"}

\* entry.rs: CacheEntry::new
CacheEntryNew(key, value) ==
  [key |-> key, value |-> value, prev |-> NoneIdx, next |-> NoneIdx]

\* lru.rs: DoublyLinkedList::new
ListNew == [nodes |-> <<>>, head |-> NoneIdx, tail |-> NoneIdx, free |-> <<>>, len |-> 0]

\* `if let Some(ref mut node) = self.nodes[at] { node.prev = to }`, for at = Some
SetPrev(nodes, at, to) ==
  IF at # NoneIdx /\ nodes[at] # <<>> THEN [nodes EXCEPT ![at][1].prev = to] ELSE nodes

SetNext(nodes, at, to) ==
  IF at # NoneIdx /\ nodes[at] # <<>> THEN [nodes EXCEPT ![at][1].next = to] ELSE nodes

\* lru.rs: alloc_slot; the list and the slot
alloc_slot(list, entry) ==
  IF list.free # <<>>
  THEN LET idx == list.free[Len(list.free)]
       IN  <<[list EXCEPT !.free = SubSeq(list.free, 1, Len(list.free) - 1),
                          !.nodes[idx] = <<entry>>], idx>>
  ELSE <<[list EXCEPT !.nodes = Append(list.nodes, <<entry>>)], Len(list.nodes) + 1>>

\* lru.rs: push_front; the list and the slot
push_front(list, key, value) ==
  LET entry == [CacheEntryNew(key, value) EXCEPT !.prev = NoneIdx, !.next = list.head]
      alloc == alloc_slot(list, entry)
      idx == alloc[2]
      linked == SetPrev(alloc[1].nodes, list.head, idx)
  IN  <<[alloc[1] EXCEPT !.nodes = linked,
                         !.head = idx,
                         !.tail = IF list.tail = NoneIdx THEN idx ELSE list.tail,
                         !.len = list.len + 1], idx>>

\* lru.rs: move_to_front
move_to_front(list, idx) ==
  IF list.head = idx THEN list
  ELSE LET node == list.nodes[idx][1]
           prev == node.prev
           next == node.next
           detached == SetPrev(SetNext(list.nodes, prev, next), next, prev)
           attached == [detached EXCEPT ![idx][1].prev = NoneIdx,
                                        ![idx][1].next = list.head]
       IN  [list EXCEPT !.nodes = attached,
                        !.tail = IF list.tail = idx THEN prev ELSE list.tail,
                        !.head = idx]

\* lru.rs: remove_node; the list and the key removed, if any
remove_node(list, idx) ==
  IF list.nodes[idx] = <<>> THEN <<list, <<>>>>
  ELSE LET node == list.nodes[idx][1]
           prev == node.prev
           next == node.next
           taken == [list.nodes EXCEPT ![idx] = <<>>]
           unlinked == SetPrev(SetNext(taken, prev, next), next, prev)
       IN  <<[list EXCEPT !.nodes = unlinked,
                          !.head = IF prev = NoneIdx THEN next ELSE list.head,
                          !.tail = IF next = NoneIdx THEN prev ELSE list.tail,
                          !.free = Append(list.free, idx),
                          !.len = list.len - 1], <<node.key>>>>

\* lru.rs: remove_tail
remove_tail(list) ==
  IF list.tail = NoneIdx THEN <<list, <<>>>> ELSE remove_node(list, list.tail)

\* lru.rs: update_value
update_value(list, idx, value) ==
  IF list.nodes[idx] # <<>> THEN [list EXCEPT !.nodes[idx][1].value = value] ELSE list

\* lru.rs: get_value
get_value(list, idx) ==
  IF list.nodes[idx] # <<>> THEN <<list.nodes[idx][1].value>> ELSE <<>>

\* cache.rs: LRUCache::new (capacity > 0 is asserted)
LRUCacheNew(capacity) == [capacity |-> capacity, map |-> <<>>, list |-> ListNew]

\* HashMap: a function from the keys present
MapHas(map, key) == key \in DOMAIN map

MapInsert(map, key, idx) ==
  [k \in DOMAIN map \cup {key} |-> IF k = key THEN idx ELSE map[k]]

MapRemove(map, key) == [k \in DOMAIN map \ {key} |-> map[k]]

\* cache.rs: LRUCache::get; the cache and the value returned
LruGet(c, key) ==
  IF MapHas(c.map, key)
  THEN LET moved == move_to_front(c.list, c.map[key])
       IN  <<[c EXCEPT !.list = moved], get_value(moved, c.map[key])>>
  ELSE <<c, <<>>>>

\* cache.rs: LRUCache::len
LruLen(c) == Cardinality(DOMAIN c.map)

\* cache.rs: LRUCache::put
LruPut(c, key, value) ==
  IF MapHas(c.map, key)
  THEN [c EXCEPT !.list = move_to_front(update_value(c.list, c.map[key], value), c.map[key])]
  ELSE LET removed == IF LruLen(c) >= c.capacity THEN remove_tail(c.list)
                                                  ELSE <<c.list, <<>>>>
           map1 == IF removed[2] # <<>> THEN MapRemove(c.map, removed[2][1]) ELSE c.map
           pushed == push_front(removed[1], key, value)
       IN  [c EXCEPT !.list = pushed[1], !.map = MapInsert(map1, key, pushed[2])]

\* A reference LRU cache: its entries in order of their last put or get-hit,
\* most recent first.
RefHas(ref, key) == \E k \in 1..Len(ref) : ref[k].key = key

RefAt(ref, key) == CHOOSE k \in 1..Len(ref) : ref[k].key = key

RefWithout(ref, key) == SelectSeq(ref, LAMBDA e : e.key # key)

RefGet(ref, key) ==
  IF RefHas(ref, key)
  THEN <<<<ref[RefAt(ref, key)]>> \o RefWithout(ref, key), <<ref[RefAt(ref, key)].value>>>>
  ELSE <<ref, <<>>>>

RefPut(ref, capacity, key, value) ==
  LET entry == [key |-> key, value |-> value]
  IN  IF RefHas(ref, key) THEN <<entry>> \o RefWithout(ref, key)
      ELSE IF Len(ref) >= capacity THEN <<entry>> \o SubSeq(ref, 1, Len(ref) - 1)
      ELSE <<entry>> \o ref

\* main.rs: the scripted access pattern, line by line
Script ==
  << <<"put", "A", 1>>, <<"put", "B", 2>>, <<"put", "C", 3>>, <<"put", "D", 4>>,
     <<"expect_hit", "A", 1>>, <<"expect_hit", "B", 2>>, <<"expect_hit", "C", 3>>,
     <<"expect_hit", "D", 4>>,
     <<"put", "E", 5>>,
     <<"expect_miss", "A", 0>>, <<"expect_hit", "B", 2>>,
     <<"expect_hit", "C", 3>>, <<"expect_hit", "D", 4>>, <<"expect_hit", "E", 5>>,
     <<"put", "F", 6>>, <<"put", "G", 7>>,
     <<"expect_hit", "G", 7>>, <<"expect_hit", "F", 6>>, <<"expect_hit", "E", 5>>,
     <<"expect_hit", "D", 4>>,
     <<"put", "A", 10>>,
     <<"expect_hit", "A", 10>>, <<"expect_hit", "D", 4>>, <<"expect_hit", "E", 5>>,
     <<"expect_miss", "B", 0>>, <<"expect_miss", "C", 0>>, <<"expect_miss", "G", 0>> >>

\* main.rs: LRUCache::new(4)
MainCapacity == 4

\* ------------------------------------ 01-logic-error: the priority queue
\* A Vec is a sequence; the element at the Vec's index idx (from 0) is the
\* sequence's element idx + 1.
At(vec, idx) == vec[idx + 1]

\* heap.rs: HeapEntry::new
HeapEntryNew(item, priority) == [priority |-> priority, item |-> item]

\* heap.rs: PositionMap::new
PositionMapNew(capacity) == [k \in 1..capacity |-> <<>>]

\* heap.rs: PositionMap::get
PosGet(positions, item) ==
  IF item < Len(positions) THEN At(positions, item) ELSE <<>>

\* heap.rs: PositionMap::set
PosSet(positions, item, at) ==
  IF item < Len(positions) THEN [positions EXCEPT ![item + 1] = <<at>>] ELSE positions

\* heap.rs: PositionMap::remove
PosRemove(positions, item) ==
  IF item < Len(positions) THEN [positions EXCEPT ![item + 1] = <<>>] ELSE positions

\* heap.rs: PositionMap::contains
PosContains(positions, item) == PosGet(positions, item) # <<>>

\* priority_queue.rs: MinPriorityQueue::new
MinPriorityQueueNew(capacity) == [data |-> <<>>, pos |-> PositionMapNew(capacity)]

\* priority_queue.rs: is_empty, contains
is_empty(q) == q.data = <<>>

contains(q, item) == PosContains(q.pos, item)

\* priority_queue.rs: swap_entries
swap_entries(q, a, b) ==
  LET swapped == [q.data EXCEPT ![a + 1] = At(q.data, b), ![b + 1] = At(q.data, a)]
      item_a == At(swapped, a).item
      item_b == At(swapped, b).item
  IN  [data |-> swapped, pos |-> PosSet(PosSet(q.pos, item_a, a), item_b, b)]

\* priority_queue.rs: sift_up
RECURSIVE sift_up(_, _)
sift_up(q, idx) ==
  IF idx > 0
  THEN LET parent == (idx - 1) \div 2
       IN  IF At(q.data, idx).priority > At(q.data, parent).priority
           THEN sift_up(swap_entries(q, idx, parent), parent)
           ELSE q
  ELSE q

\* priority_queue.rs: sift_down
RECURSIVE sift_down(_, _)
sift_down(q, idx) ==
  LET len == Len(q.data)
      left == 2 * idx + 1
      right == 2 * idx + 2
      s1 == IF left < len /\ At(q.data, left).priority > At(q.data, idx).priority
            THEN left ELSE idx
      smallest == IF right < len /\ At(q.data, right).priority > At(q.data, s1).priority
                  THEN right ELSE s1
  IN  IF smallest # idx THEN sift_down(swap_entries(q, idx, smallest), smallest) ELSE q

\* priority_queue.rs: insert
insert(q, item, priority) ==
  LET idx == Len(q.data)
  IN  sift_up([data |-> Append(q.data, HeapEntryNew(item, priority)),
               pos |-> PosSet(q.pos, item, idx)], idx)

\* priority_queue.rs: extract_min; the queue and the entry returned, if any
extract_min(q) ==
  IF is_empty(q) THEN <<q, <<>>>>
  ELSE LET last == Len(q.data) - 1
           swapped == swap_entries(q, 0, last)
           entry == At(swapped.data, last)
           popped == [data |-> SubSeq(swapped.data, 1, last),
                      pos |-> PosRemove(swapped.pos, entry.item)]
       IN  <<IF ~is_empty(popped) THEN sift_down(popped, 0) ELSE popped, <<entry>>>>

\* priority_queue.rs: decrease_key (called with a priority that is not higher)
decrease_key(q, item, new_priority) ==
  IF PosGet(q.pos, item) # <<>>
  THEN LET idx == PosGet(q.pos, item)[1]
       IN  sift_up([q EXCEPT !.data[idx + 1].priority = new_priority], idx)
  ELSE q

\* ------------------------------------------------ 01-logic-error: dijkstra
\* u32::MAX.  TLC's integers end at 2^31 - 1, which stands for it:
\* the weights explored are far below both, so that only the comparisons
\* with the largest value matter.
U32_MAX == 2147483647

\* u32::saturating_add
saturating_add(a, b) == IF a > U32_MAX - b THEN U32_MAX ELSE a + b

\* graph.rs: Graph::new and add_edge, on the adjacency lists
GraphNew(n) == [u \in 1..n |-> <<>>]

add_edge(adj, from, to, weight) ==
  [adj EXCEPT ![from + 1] = Append(@, [to |-> to, weight |-> weight])]

\* graph.rs: neighbors, num_nodes
neighbors(adj, u) == At(adj, u)

num_nodes(adj) == Len(adj)

\* graph.rs: build_benchmark_graph (A=0, B=1, C=2, D=3, E=4)
build_benchmark_graph ==
  add_edge(add_edge(add_edge(add_edge(add_edge(GraphNew(5),
    0, 1, 2), 0, 2, 10), 1, 3, 1), 3, 4, 4), 2, 4, 0)

\* main.rs: reconstruct_path, before the reversal
RECURSIVE PathBack(_, _, _)
PathBack(prev, src, current) ==
  IF current = src THEN <<current>>
  ELSE IF At(prev, current) # <<>> THEN <<current>> \o PathBack(prev, src, At(prev, current)[1])
  ELSE <<current>>

Reverse(s) == [k \in 1..Len(s) |-> s[Len(s) + 1 - k]]

\* main.rs: reconstruct_path
reconstruct_path(prev, src, tgt) == Reverse(PathBack(prev, src, tgt))

\* main.rs: dijkstra, lines 42-56: the edges of u from the k-th on, applied to
\* the locals dist and prev and to the queue
RECURSIVE Relax(_, _, _, _, _, _)
Relax(edges, k, u, cost_u, locals, q) ==
  IF k > Len(edges) THEN <<locals, q>>
  ELSE LET v == edges[k].to
           new_dist == saturating_add(cost_u, edges[k].weight)
       IN  IF new_dist < At(locals.dist, v)
           THEN Relax(edges, k + 1, u, cost_u,
                      [locals EXCEPT !.dist[v + 1] = new_dist, !.prev[v + 1] = <<u>>],
                      IF contains(q, v) THEN decrease_key(q, v, new_dist)
                                        ELSE insert(q, v, new_dist))
           ELSE Relax(edges, k + 1, u, cost_u, locals, q)

\* -------------------------------------------------- 05-silent-wrong: varints
\* types.rs
DATA_BITS == 7
DATA_MASK == 127
CONTINUATION_BIT == 128
MAX_VARINT_BYTES == 10

\* a & b and a | b on unsigned integers
RECURSIVE BitAnd(_, _)
BitAnd(a, b) ==
  IF a = 0 \/ b = 0 THEN 0
  ELSE (IF a % 2 = 1 /\ b % 2 = 1 THEN 1 ELSE 0) + 2 * BitAnd(a \div 2, b \div 2)

RECURSIVE BitOr(_, _)
BitOr(a, b) ==
  IF a = 0 THEN b
  ELSE IF b = 0 THEN a
  ELSE (IF a % 2 = 1 \/ b % 2 = 1 THEN 1 ELSE 0) + 2 * BitOr(a \div 2, b \div 2)

\* a << n and a >> n; the values explored stay far below 2^64, so that no bit
\* is shifted out at the top
Shl(a, n) == a * 2^n

Shr(a, n) == a \div 2^n

\* types.rs: DecodeResult::new
DecodeResultNew(value, bytes_read) == [value |-> value, bytes_read |-> bytes_read]

\* encoder.rs: encode_varint, the loop
RECURSIVE EncodeLoop(_, _)
EncodeLoop(value, buf) ==
  LET low == BitAnd(value, DATA_MASK)
      rest == Shr(value, DATA_BITS)
      byte == IF rest # 0 THEN BitOr(low, CONTINUATION_BIT) ELSE low
  IN  IF rest = 0 THEN Append(buf, byte) ELSE EncodeLoop(rest, Append(buf, byte))

\* encoder.rs: encode_varint
encode_varint(value) == EncodeLoop(value, <<>>)

\* encoder.rs: encode_many
RECURSIVE encode_many(_)
encode_many(vs) ==
  IF vs = <<>> THEN <<>> ELSE encode_varint(Head(vs)) \o encode_many(Tail(vs))

\* decoder.rs: decode_varint, the loop from the byte at index i on
RECURSIVE DecodeLoop(_, _, _, _)
DecodeLoop(bytes, i, result, shift) ==
  IF i >= Len(bytes) THEN DecodeResultNew(result, Len(bytes))
  ELSE IF i >= MAX_VARINT_BYTES THEN DecodeResultNew(result, i)
  ELSE LET byte == At(bytes, i)
           data == BitAnd(byte, DATA_MASK)
           acc == BitOr(result, Shl(data, shift))
       IN  IF BitAnd(byte, CONTINUATION_BIT) = 0
           THEN DecodeResultNew(acc, i + 1)
           ELSE DecodeLoop(bytes, i + 1, acc, shift + 8)

\* decoder.rs: decode_varint
decode_varint(bytes) == DecodeLoop(bytes, 0, 0, 0)

\* decoder.rs: decode_many, the loop from offset on
RECURSIVE DecodeManyLoop(_, _, _)
DecodeManyLoop(bytes, offset, vs) ==
  IF offset < Len(bytes)
  THEN LET result == decode_varint(SubSeq(bytes, offset + 1, Len(bytes)))
       IN  IF result.bytes_read = 0 THEN vs
           ELSE DecodeManyLoop(bytes, offset + result.bytes_read, Append(vs, result.value))
  ELSE vs

\* decoder.rs: decode_many
decode_many(bytes) == DecodeManyLoop(bytes, 0, <<>>)

\* main.rs: TEST_VALUES
TEST_VALUES == <<0, 1, 127, 128, 255, 256, 300, 1000, 16383, 65535>>

\* ------------------------------------------------------------- specification
\* Nothing has run yet: no thread is spawned, no channel holds anything.
NotStarted ==
  /\ pcMain = "start" /\ resultCh = <<>> /\ reported = <<>>
  /\ pcP = "unspawned" /\ next_i = 1 /\ heldP = <<>>
  /\ chan = [c \in Channels |-> <<>>]
  /\ txOpen = [c \in Channels |-> TRUE]
  /\ rxOpen = [c \in Channels |-> TRUE]
  /\ sent = [c \in Channels |-> <<>>]
  /\ rcvd = [c \in Channels |-> <<>>]
  /\ pc1 = "unspawned" /\ held1 = <<>> /\ records_sent = 0 /\ feedback_processed = 0
  /\ pc2 = "unspawned" /\ held2 = <<>> /\ forwarded = 0 /\ feedback_sent = 0
  /\ pc3 = "unspawned" /\ results = <<>> /\ integrity_errors = 0

\* The pipeline is not run, check_completeness is not called, the other
\* programs of the benchmark are not run.
PipelineIdle == num_records = 0 /\ channel_bound = 1 /\ NotStarted

CallIdle == arg_records = <<>> /\ arg_expected_count = 0 /\ returned = <<>>

LruIdle ==
  /\ cache = [capacity |-> 0, map |-> <<>>, list |-> ListNew] /\ got = <<>> /\ reference = <<>> /\ ref_got = <<>>
  /\ script_pc = 0 /\ hits = 0 /\ misses = 0 /\ errors = 0

PqIdle == pq = MinPriorityQueueNew(0) /\ pq_op = "none" /\ extracted = <<>>

DjIdle ==
  /\ graph = <<>> /\ source = 0 /\ target = 0
  /\ dj = <<>> /\ dj_pc = "none" /\ dj_result = <<>>

VarintIdle ==
  /\ original = 0 /\ encoded = <<>> /\ decoded = <<>>
  /\ values = <<>> /\ stream = <<>> /\ decoded_values = <<>> /\ vi_pc = "none"

BenchIdle == LruIdle /\ PqIdle /\ DjIdle /\ VarintIdle

\* A run of the program: main calls check_completeness only through
\* report_results, with the vector the pipeline returned.
Init ==
  /\ num_records \in (0..MaxRecords) \cup {NUM_RECORDS}
  /\ channel_bound \in (1..MaxBound) \cup {CHANNEL_BOUND}
  /\ NotStarted
  /\ CallIdle
  /\ BenchIdle

Next == Main \/ Pipeline \/ Stage1 \/ Stage2 \/ Stage3

Spec == Init /\ [][Next]_vars

\* ------------------------------------------- check_completeness, called alone
\* check_completeness is a public function of worker.rs: a caller may give it
\* any slice of records and any expected count.  The calls explored are those
\* with up to MaxCallLen records, ids in 0..MaxCallId and expected counts in
\* 0..MaxCallId.
RECURSIVE RecordSeqs(_)
RecordSeqs(len) ==
  IF len = 0 THEN {<<>>}
  ELSE LET shorter == RecordSeqs(len - 1)
       IN  shorter \cup {Append(q, RecordNew(id)) :
                           q \in {t \in shorter : Len(t) = len - 1}, id \in 0..MaxCallId}

CallInit ==
  /\ arg_records \in RecordSeqs(MaxCallLen)
  /\ arg_expected_count \in 0..MaxCallId
  /\ returned = <<>>
  /\ PipelineIdle
  /\ BenchIdle

CallCheckCompleteness ==
  /\ returned = <<>>
  /\ returned' = <<check_completeness(arg_records, arg_expected_count)>>
  /\ UNCHANGED <<arg_records, arg_expected_count>>
  /\ UNCHANGED <<pipeVars, lruVars, pqVars, djVars, viVars>>

CallNext == CallCheckCompleteness

CallSpec == CallInit /\ [][CallNext]_vars

\* ----------------------------------------------- Record::verify, called alone
\* Record's fields are public: a caller may build a Record of any payload
\* with its checksum, reorder the payload's bytes and call verify.  The
\* payloads explored are the byte strings of up to MaxPayloadLen bytes
\* 0..MaxByte; arg_records holds the record as built and the record reordered.
Payloads ==
  UNION {[1..len -> 0..MaxByte] : len \in 0..MaxPayloadLen}

RecordOf(payload) ==
  [id |-> 1, payload |-> payload, stage |-> 0,
   checksum |-> compute_checksum(payload), retry_count |-> 0]

Swapped(data, k) ==
  [data EXCEPT ![k] = data[k + 1], ![k + 1] = data[k]]

VerifyInit ==
  /\ PipelineIdle
  /\ BenchIdle
  /\ \E payload \in Payloads : arg_records = <<RecordOf(payload), RecordOf(payload)>>
  /\ arg_expected_count = 0
  /\ returned = <<>>

\* two neighbouring bytes of the payload change places; the checksum field
\* is left as it was
CallReorder ==
  /\ returned = <<>>
  /\ \E k \in 1..(Len(arg_records[2].payload) - 1) :
       arg_records' = [arg_records EXCEPT ![2].payload = Swapped(@, k)]
  /\ UNCHANGED <<arg_expected_count, returned>>
  /\ UNCHANGED <<pipeVars, lruVars, pqVars, djVars, viVars>>

CallVerify ==
  /\ returned = <<>>
  /\ returned' = <<verify(arg_records[2])>>
  /\ UNCHANGED <<arg_records, arg_expected_count>>
  /\ UNCHANGED <<pipeVars, lruVars, pqVars, djVars, viVars>>

VerifyNext == CallReorder \/ CallVerify

VerifySpec == VerifyInit /\ [][VerifyNext]_vars

\* ------------------------------------------------------------ induced faults
\* The program has no fault of its own to offer: every panic in it is an
\* `expect` on a send, and a send fails only after another thread has ended.
\* The runs below add the two faults the pipeline is specified against: a
\* stage that panics inside its loop, and a record whose checksum is
\* corrupted on its way to stage3.

\* A panic unwinds the stage's thread: the record it holds and every channel
\* end it owns are dropped.
S1Panics ==
  /\ ProcessAlive
  /\ pc1 \in {"primary_next", "primary_send", "feedback_next", "feedback_send"}
  /\ Drop(Stage1Ends[1], Stage1Ends[2])
  /\ pc1' = "panicked" /\ held1' = <<>>
  /\ UNCHANGED <<records_sent, feedback_processed>>
  /\ UNCHANGED <<otherVars, cfgVars, mainVars, prodVars, s2Vars, s3Vars>>

S2Panics ==
  /\ ProcessAlive
  /\ pc2 \in {"next", "send_feedback", "send_forward"}
  /\ Drop(Stage2Ends[1], Stage2Ends[2])
  /\ pc2' = "panicked" /\ held2' = <<>>
  /\ UNCHANGED <<forwarded, feedback_sent>>
  /\ UNCHANGED <<otherVars, cfgVars, mainVars, prodVars, s1Vars, s3Vars>>

\* stage3's `results` vector is dropped with the thread: nothing is returned.
S3Panics ==
  /\ ProcessAlive
  /\ pc3 = "next"
  /\ Drop({}, {"s2_to_s3"})
  /\ pc3' = "panicked" /\ results' = <<>>
  /\ UNCHANGED integrity_errors
  /\ UNCHANGED <<otherVars, cfgVars, mainVars, prodVars, s1Vars, s2Vars>>

\* The number of records that do not verify: those buffered for stage3 and
\* those stage3 has counted.
Corrupted == Len(SelectSeq(chan["s2_to_s3"], IsInvalid)) + integrity_errors

\* A record buffered for stage3 has its checksum changed (at most
\* MaxCorrupted records of a run).
Corrupt ==
  /\ ProcessAlive
  /\ Corrupted < MaxCorrupted
  /\ \E k \in 1..Len(chan["s2_to_s3"]) :
       /\ verify(chan["s2_to_s3"][k])
       /\ chan' = [chan EXCEPT !["s2_to_s3"][k].checksum = @ + 1]
  /\ UNCHANGED <<sent, rcvd, txOpen, rxOpen>>
  /\ UNCHANGED <<otherVars, cfgVars, mainVars, prodVars, s1Vars, s2Vars, s3Vars>>

\* The runs with faults are explored for a short configuration that still
\* feeds a record back.
FaultInit ==
  /\ Init
  /\ num_records = MaxRecords - 1
  /\ channel_bound \in 1..MaxBound

\* Runs in which stages may panic, and runs in which records may be corrupted.
PanicNext == Next \/ S1Panics \/ S2Panics \/ S3Panics

PanicSpec == FaultInit /\ [][PanicNext]_vars

CorruptNext == Next \/ Corrupt

CorruptSpec == FaultInit /\ [][CorruptNext]_vars

\* The scheduler runs some thread as long as one can take a step.  (No thread
\* loops without a channel operation, so every run is finite and this is all
\* the fairness the pipeline's progress needs.)
FairSpec == Spec /\ WF_vars(Next)

\* ------------------------------------------- runs about the deadlock's onset
\* The least number of records that leaves stage1 blocked in its primary
\* loop: stage2 blocks holding the (C+1)-th multiple of 10 with C others
\* buffered for feedback, C more records fill stage1->stage2, and stage1
\* blocks holding the next.
DeadlockThreshold(bound) == 10 * (bound + 1) + bound + 1

\* Runs of as many records as fill the feedback channel and block stage2, of
\* one record fewer than the threshold and of the threshold, for the
\* capacities 1..MaxBound and the program's CHANNEL_BOUND.
ThresholdInit ==
  /\ channel_bound \in (1..MaxBound) \cup {CHANNEL_BOUND}
  /\ num_records \in {10 * (channel_bound + 1),
                      DeadlockThreshold(channel_bound) - 1,
                      DeadlockThreshold(channel_bound)}
  /\ channel_bound = CHANNEL_BOUND => num_records >= DeadlockThreshold(channel_bound) - 1
  /\ NotStarted
  /\ CallIdle
  /\ BenchIdle

ThresholdSpec == ThresholdInit /\ [][Next]_vars

\* The runs of one record fewer than the threshold for the capacities
\* 1..MaxBound, under the scheduler of FairSpec.
BelowThresholdInit ==
  /\ ThresholdInit
  /\ channel_bound \in 1..MaxBound
  /\ num_records = DeadlockThreshold(channel_bound) - 1

FairBelowThresholdSpec == BelowThresholdInit /\ [][Next]_vars /\ WF_vars(Next)

\* ------------------------------------------ 02-state-mutation: the runs
\* A caller's put and get on a cache that runs no script.
CachePut ==
  /\ cache.capacity > 0 /\ script_pc = 0
  /\ \E key \in LruKeys, value \in 1..MaxValue :
       /\ Len(LruPut(cache, key, value).list.nodes) <= MaxSlots
       /\ cache' = LruPut(cache, key, value)
       /\ reference' = RefPut(reference, cache.capacity, key, value)
  /\ UNCHANGED <<got, ref_got, script_pc, hits, misses, errors>>
  /\ UNCHANGED <<pipeVars, callVars, pqVars, djVars, viVars>>

CacheGet ==
  /\ cache.capacity > 0 /\ script_pc = 0
  /\ \E key \in LruKeys :
       /\ cache' = LruGet(cache, key)[1]
       /\ got' = LruGet(cache, key)[2]
       /\ reference' = RefGet(reference, key)[1]
       /\ ref_got' = RefGet(reference, key)[2]
  /\ UNCHANGED <<script_pc, hits, misses, errors>>
  /\ UNCHANGED <<pipeVars, callVars, pqVars, djVars, viVars>>

\* main.rs: one line of the script (a put, an expect_hit! or an expect_miss!)
MainLine ==
  /\ script_pc \in 1..Len(Script)
  /\ LET op == Script[script_pc][1]
         key == Script[script_pc][2]
         value == Script[script_pc][3]
         r == LruGet(cache, key)
     IN  /\ cache' = IF op = "put" THEN LruPut(cache, key, value) ELSE r[1]
         /\ got' = IF op = "put" THEN got ELSE r[2]
         /\ reference' = IF op = "put" THEN RefPut(reference, cache.capacity, key, value)
                                        ELSE RefGet(reference, key)[1]
         /\ ref_got' = IF op = "put" THEN ref_got ELSE RefGet(reference, key)[2]
         /\ hits' = IF op = "expect_hit" /\ r[2] = <<value>> THEN hits + 1 ELSE hits
         /\ misses' = IF op = "expect_miss" /\ r[2] = <<>> THEN misses + 1 ELSE misses
         /\ errors' = IF (op = "expect_hit" /\ r[2] # <<value>>)
                          \/ (op = "expect_miss" /\ r[2] # <<>>)
                       THEN errors + 1 ELSE errors
  /\ script_pc' = script_pc + 1
  /\ UNCHANGED <<pipeVars, callVars, pqVars, djVars, viVars>>

\* main's cache with its script, or a cache of capacity 1..MaxCapacity that a
\* caller puts to and gets from freely.
LruInit ==
  /\ \/ (cache = LRUCacheNew(MainCapacity) /\ script_pc = 1)
     \/ (\E c \in 1..MaxCapacity : cache = LRUCacheNew(c) /\ script_pc = 0)
  /\ got = <<>> /\ reference = <<>> /\ ref_got = <<>>
  /\ hits = 0 /\ misses = 0 /\ errors = 0
  /\ PipelineIdle /\ CallIdle /\ PqIdle /\ DjIdle /\ VarintIdle

LruNext == CachePut \/ CacheGet \/ MainLine

LruSpec == LruInit /\ [][LruNext]_vars

\* ----------------------------------------- 01-logic-error: the queue's calls
\* A caller's calls on a queue of capacity MaxItems: it inserts items that
\* are not in the queue, lowers the priority of items that are, and extracts.
PqInsert ==
  /\ pq_op # "none"
  /\ \E item \in 0..(MaxItems - 1), priority \in 0..MaxPriority :
       /\ ~contains(pq, item)
       /\ pq' = insert(pq, item, priority)
  /\ pq_op' = "insert" /\ extracted' = <<>>
  /\ UNCHANGED <<pipeVars, callVars, lruVars, djVars, viVars>>

PqDecreaseKey ==
  /\ pq_op # "none"
  /\ \E item \in 0..(MaxItems - 1), new_priority \in 0..MaxPriority :
       /\ contains(pq, item)
       /\ new_priority <= At(pq.data, PosGet(pq.pos, item)[1]).priority
       /\ pq' = decrease_key(pq, item, new_priority)
  /\ pq_op' = "decrease_key" /\ extracted' = <<>>
  /\ UNCHANGED <<pipeVars, callVars, lruVars, djVars, viVars>>

PqExtractMin ==
  /\ pq_op # "none"
  /\ pq' = extract_min(pq)[1]
  /\ extracted' = extract_min(pq)[2]
  /\ pq_op' = "extract_min"
  /\ UNCHANGED <<pipeVars, callVars, lruVars, djVars, viVars>>

PqInit ==
  /\ pq = MinPriorityQueueNew(MaxItems) /\ pq_op = "new" /\ extracted = <<>>
  /\ PipelineIdle /\ CallIdle /\ LruIdle /\ DjIdle /\ VarintIdle

PqNext == PqInsert \/ PqDecreaseKey \/ PqExtractMin

PqSpec == PqInit /\ [][PqNext]_vars

\* --------------------------------------------- 01-logic-error: dijkstra's run
\* main.rs: dijkstra, lines 13-21
DjStart ==
  /\ dj_pc = "call"
  /\ LET n == num_nodes(graph)
     IN  /\ dj' = [dist |-> [[k \in 1..n |-> U32_MAX] EXCEPT ![source + 1] = 0],
                   prev |-> [k \in 1..n |-> <<>>],
                   visited |-> [k \in 1..n |-> FALSE]]
         /\ pq' = insert(MinPriorityQueueNew(n), source, 0)
  /\ pq_op' = "insert" /\ extracted' = <<>>
  /\ dj_pc' = "loop"
  /\ UNCHANGED <<graph, source, target, dj_result>>
  /\ UNCHANGED <<pipeVars, callVars, lruVars, viVars>>

\* main.rs: dijkstra, lines 23-64: one turn of the while loop, or its end
DjLoop ==
  /\ dj_pc = "loop"
  /\ LET ex == extract_min(pq)
         u == ex[2][1].item
         cost_u == ex[2][1].priority
         seen == [dj EXCEPT !.visited[u + 1] = TRUE]
         relaxed == Relax(neighbors(graph, u), 1, u, cost_u, seen, ex[1])
     IN  IF ex[2] = <<>>
         THEN /\ dj_result' = IF At(dj.dist, target) = U32_MAX THEN <<>>
                              ELSE << <<At(dj.dist, target),
                                        reconstruct_path(dj.prev, source, target)>> >>
              /\ dj_pc' = "returned"
              /\ pq' = ex[1] /\ pq_op' = "extract_min" /\ extracted' = ex[2]
              /\ UNCHANGED dj
         ELSE IF u = target
         THEN /\ dj_result' = << <<cost_u, reconstruct_path(dj.prev, source, target)>> >>
              /\ dj_pc' = "returned"
              /\ pq' = ex[1] /\ pq_op' = "extract_min" /\ extracted' = ex[2]
              /\ UNCHANGED dj
         ELSE IF At(dj.visited, u)
         THEN /\ pq' = ex[1] /\ pq_op' = "extract_min" /\ extracted' = ex[2]
              /\ UNCHANGED <<dj, dj_result, dj_pc>>
         ELSE IF cost_u > At(dj.dist, u)
         THEN /\ dj' = seen
              /\ pq' = ex[1] /\ pq_op' = "extract_min" /\ extracted' = ex[2]
              /\ UNCHANGED <<dj_result, dj_pc>>
         ELSE /\ dj' = relaxed[1]
              /\ pq' = relaxed[2]
              /\ pq_op' = IF relaxed[2] = ex[1] THEN "extract_min" ELSE "relax"
              /\ extracted' = IF relaxed[2] = ex[1] THEN ex[2] ELSE <<>>
              /\ UNCHANGED <<dj_result, dj_pc>>
  /\ UNCHANGED <<graph, source, target>>
  /\ UNCHANGED <<pipeVars, callVars, lruVars, viVars>>

\* The graphs explored besides the benchmark's: MaxNodes nodes, and from each
\* node to each other node no edge or one edge of weight 1..MaxWeight.
RECURSIVE WithEdges(_, _, _)
WithEdges(adj, pairs, weights) ==
  IF pairs = <<>> THEN adj
  ELSE WithEdges(IF weights[1] = 0 THEN adj
                 ELSE add_edge(adj, pairs[1][1], pairs[1][2], weights[1]),
                 Tail(pairs), Tail(weights))

NodePairs(n) ==
  LET all == [k \in 1..(n * n) |-> <<(k - 1) \div n, (k - 1) % n>>]
  IN  SelectSeq(all, LAMBDA p : p[1] # p[2])

SmallGraphs(n) ==
  {WithEdges(GraphNew(n), NodePairs(n), weights) :
     weights \in [1..Len(NodePairs(n)) -> 0..MaxWeight]}

\* main.rs: main calls dijkstra on the benchmark graph from A to E; any
\* caller may call it on any graph.
DjInit ==
  /\ \/ (graph = build_benchmark_graph /\ source = 0 /\ target = 4)
     \/ (/\ graph \in SmallGraphs(MaxNodes)
         /\ source \in 0..(MaxNodes - 1)
         /\ target \in 0..(MaxNodes - 1))
  /\ dj_pc = "call" /\ dj = <<>> /\ dj_result = <<>>
  /\ PqIdle
  /\ PipelineIdle /\ CallIdle /\ LruIdle /\ VarintIdle

DjNext == DjStart \/ DjLoop

DijkstraSpec == DjInit /\ [][DjNext]_vars

\* -------------------------------------------- 05-silent-wrong: the round trip
\* main.rs: main, lines 34-35, for one value: encode, then decode
Encode ==
  /\ vi_pc = "encode"
  /\ encoded' = encode_varint(original)
  /\ stream' = encode_many(values)
  /\ vi_pc' = "decode"
  /\ UNCHANGED <<original, values, decoded, decoded_values>>
  /\ UNCHANGED <<pipeVars, callVars, lruVars, pqVars, djVars>>

Decode ==
  /\ vi_pc = "decode"
  /\ decoded' = <<decode_varint(encoded)>>
  /\ decoded_values' = decode_many(stream)
  /\ vi_pc' = "done"
  /\ UNCHANGED <<original, values, encoded, stream>>
  /\ UNCHANGED <<pipeVars, callVars, lruVars, pqVars, djVars>>

\* the sequences of up to len values of TEST_VALUES
RECURSIVE ValueSeqs(_)
ValueSeqs(len) ==
  IF len = 0 THEN {<<>>}
  ELSE LET shorter == ValueSeqs(len - 1)
       IN  shorter \cup {Append(q, TEST_VALUES[k]) :
                           q \in {t \in shorter : Len(t) = len - 1},
                           k \in 1..Len(TEST_VALUES)}

\* main's values, and any value up to MaxVarint; any sequence of up to
\* MaxMany of main's values for encode_many and decode_many.
VarintInit ==
  /\ \/ (/\ original \in (0..MaxVarint) \cup {TEST_VALUES[k] : k \in 1..Len(TEST_VALUES)}
         /\ values = <<>>)
     \/ (original = 0 /\ values \in ValueSeqs(MaxMany))
  /\ encoded = <<>> /\ stream = <<>> /\ decoded = <<>> /\ decoded_values = <<>>
  /\ vi_pc = "encode"
  /\ PipelineIdle /\ CallIdle /\ LruIdle /\ PqIdle /\ DjIdle

VarintNext == Encode \/ Decode

VarintSpec == VarintInit /\ [][VarintNext]_vars

\* ===================================================================== claims
Ids(q) == [k \in 1..Len(q) |-> q[k].id]

\* Every record that exists, wherever it is.
InFlight ==
  heldP \o chan["input"] \o held1 \o chan["s1_to_s2"] \o held2
        \o chan["feedback"] \o chan["s2_to_s3"] \o results

Occurrences(ids, id) == Cardinality({k \in 1..Len(ids) : ids[k] = id})

Collected(id) == \E k \in 1..Len(results) : results[k].id = id

\* Whether main, or any thread at all, can take a step.
MainCanStep ==
  \/ pcMain = "start"
  \/ pcMain = "recv" /\ (resultCh # <<>> \/ pcP = "panicked" \/ TimerElapsed)

AnyCanStep ==
  \/ MainCanStep
  \/ ProcessAlive /\ (PipelineCanStep \/ Stage1CanStep \/ Stage2CanStep \/ Stage3CanStep)

\* The run has ended: main has left recv_timeout with one of its outcomes.
RunEnded == pcMain \in {"success", "timeout", "disconnected"}

\* A measure of the work done so far.  A record counts twice its stage while
\* a thread holds it, one more while it is buffered in a channel and two more
\* once collected; every thread counts its position in its code.
StageSum(q) ==
  Cardinality(UNION {{<<k, j>> : j \in 1..q[k].stage} : k \in 1..Len(q)})

MainRank == CASE pcMain = "start" -> 0 [] pcMain = "recv" -> 1 [] OTHER -> 2

PipelineRank ==
  CASE pcP = "unspawned" -> 0 [] pcP = "spawn_s1" -> 1 [] pcP = "spawn_s2" -> 2
    [] pcP = "spawn_s3" -> 3 [] pcP \in {"produce", "send"} -> 4
    [] pcP = "close" -> 5  [] pcP = "join_s1" -> 6 [] pcP = "join_s2" -> 7
    [] pcP = "join_s3" -> 8 [] OTHER -> 9

StageRank(pc) ==
  CASE pc = "unspawned" -> 0
    [] pc \in {"primary_next", "primary_send", "next", "send_feedback", "send_forward"} -> 1
    [] pc \in {"feedback_next", "feedback_send"} -> 2
    [] OTHER -> 3

Progress ==
  MainRank + PipelineRank + next_i + Len(heldP)
  + StageRank(pc1) + StageRank(pc2) + StageRank(pc3)
  + 2 * StageSum(heldP \o held1 \o held2)
  + 2 * StageSum(chan["input"] \o chan["s1_to_s2"] \o chan["feedback"] \o chan["s2_to_s3"])
  + Len(chan["input"]) + Len(chan["s1_to_s2"]) + Len(chan["feedback"]) + Len(chan["s2_to_s3"])
  + 2 * StageSum(results) + 2 * Len(results)

\* Every step does some work: no run goes on forever, so a run in which the
\* scheduler keeps running whatever can run ends where nothing can run.
EveryStepProgresses == [][Progress' > Progress]_vars

\* The number of records ever fed back is the number of multiples of 10 in
\* 1..num_records; the feedback channel is adequate when it holds them all.
AdequateFeedback == channel_bound >= num_records \div 10

ScenarioB == num_records = NUM_RECORDS /\ channel_bound = CHANNEL_BOUND

\* stage1 blocked sending on the full stage1->stage2 channel while stage2 is
\* blocked sending on the full feedback channel.
CircularWait ==
  /\ pc1 = "primary_send" /\ Len(chan["s1_to_s2"]) = channel_bound
  /\ pc2 = "send_feedback" /\ Len(chan["feedback"]) = channel_bound

\* C1: with an adequately sized feedback channel the pipeline completes: the
\* run ends with the three stages terminated and Collection's sequence
\* returned to main, and the watchdog timeout does not fire.
C1_Liveness ==
  AdequateFeedback =>
    /\ pcMain # "timeout"
    /\ (~AnyCanStep => pc1 = "done" /\ pc2 = "done" /\ pc3 = "done" /\ pcMain = "success")

\* C2: every run ends with the pipeline having returned a sequence in which
\* every id of 1..=N appears exactly once (nothing missing, nothing twice).
C2_NoLoss ==
  RunEnded =>
    /\ pcMain = "success"
    /\ check_completeness(reported[1], num_records) = <<<<>>, <<>>>>
    /\ Len(reported[1]) = num_records

\* C3: in Scenario B (N = 500, every capacity 5) every execution ends in the
\* circular wait: no run goes on forever, the pipeline's threads can all be
\* stopped only in the circular wait, the run can end only there and with
\* the timeout, and no result is ever produced.
C3_DeadlockReproduced ==
  /\ EveryStepProgresses
  /\ [](ScenarioB /\ TimerElapsed /\ pcP # "unspawned" => CircularWait)
  /\ [](ScenarioB /\ ~AnyCanStep => CircularWait /\ pcMain = "timeout")
  /\ [](ScenarioB => resultCh = <<>> /\ reported = <<>>
                       /\ pcMain \notin {"success", "disconnected"})

C3_Witness == ScenarioB /\ CircularWait /\ pcMain = "timeout"

\* C4: Ingestion serves both inputs interleaved, so a record waiting in the
\* feedback channel is eventually received: when nothing can run any more,
\* no record is left waiting in the feedback channel.
C4_FeedbackServiced == ~AnyCanStep => chan["feedback"] = <<>>

\* C5: a record with id mod 10 = 0 is sent on the feedback channel at most
\* MAX_RETRY_STAGE times and is eventually forwarded to Collection: when
\* nothing can run any more, every such record has been collected.
C5_RetryBound ==
  /\ \A k \in 1..Len(sent["feedback"]) :
       /\ sent["feedback"][k] % 10 = 0
       /\ Occurrences(sent["feedback"], sent["feedback"][k]) <= MAX_RETRY_STAGE
  /\ ~AnyCanStep =>
       \A id \in 1..num_records : id % 10 = 0 => Collected(id)

\* C6: every record verifies (its checksum is the checksum of its payload)
\* wherever it is observed: just created, held by a stage, buffered in a
\* channel, or arriving in Collection's sequence; stage3 counts no integrity
\* error, and once the run is over validate_batch finds every collected
\* record valid.
NotCollected ==
  heldP \o chan["input"] \o held1 \o chan["s1_to_s2"] \o held2
        \o chan["feedback"] \o chan["s2_to_s3"]

C6_Integrity ==
  /\ \A k \in 1..Len(NotCollected) :
       NotCollected[k].checksum = compute_checksum(NotCollected[k].payload)
  /\ results # <<>> =>
       results[Len(results)].checksum = compute_checksum(results[Len(results)].payload)
  /\ integrity_errors = 0
  /\ ~AnyCanStep => validate_batch(results) = <<Len(results), <<>>>>

\* a record that went through every transformation (stage1, stage2, the
\* feedback path, stage1 again, stage2 again) has been collected
C6_Witness ==
  \E k \in 1..Len(results) :
    results[k].retry_count = 1 /\ results[k].stage = 4 /\ verify(results[k])

\* C7: every record the producer has created is in exactly one place: the
\* ids of the records held by the producer, buffered in the channels, held
\* by the stages and collected are 1..created, each exactly once (there are
\* as many records as ids created, and every id created is among them).
Created == next_i - 1 + Len(heldP)

C7_ExclusiveOwnership ==
  /\ Len(InFlight) = Created
  /\ {InFlight[k].id : k \in 1..Len(InFlight)} = 1..Created

C7_Witness ==
  /\ heldP # <<>> /\ held1 # <<>> /\ held2 # <<>> /\ results # <<>>
  /\ \A c \in Channels : chan[c] # <<>>

\* C8: no channel ever holds more than channel_bound items; a send completes
\* (the buffer grows) only from a buffer holding fewer than channel_bound
\* items; and a sender at its send can complete it exactly when the channel
\* holds fewer than channel_bound items.
SendCompletesIffRoom ==
  /\ pcP = "send" /\ rxOpen["input"] =>
       (ENABLED PSend <=> Len(chan["input"]) < channel_bound)
  /\ pc1 = "primary_send" /\ rxOpen["s1_to_s2"] =>
       (ENABLED S1PrimarySend <=> Len(chan["s1_to_s2"]) < channel_bound)
  /\ pc1 = "feedback_send" /\ rxOpen["s1_to_s2"] =>
       (ENABLED S1FeedbackSend <=> Len(chan["s1_to_s2"]) < channel_bound)
  /\ pc2 = "send_feedback" /\ rxOpen["feedback"] =>
       (ENABLED S2SendFeedback <=> Len(chan["feedback"]) < channel_bound)
  /\ pc2 = "send_forward" /\ rxOpen["s2_to_s3"] =>
       (ENABLED S2SendForward <=> Len(chan["s2_to_s3"]) < channel_bound)

C8_BoundedChannel ==
  /\ [](\A c \in Channels : Len(chan[c]) <= channel_bound)
  /\ [][\A c \in Channels :
          Len(chan'[c]) > Len(chan[c]) => Len(chan[c]) < channel_bound]_vars
  /\ [](ProcessAlive => SendCompletesIffRoom)

\* the producer and stage1 are both blocked at a send on a full channel
C8_Witness ==
  /\ pcP = "send" /\ Len(chan["input"]) = channel_bound
  /\ pc1 = "primary_send" /\ Len(chan["s1_to_s2"]) = channel_bound

\* C9: closing a channel (dropping its sender) leaves its buffer as it is;
\* from a closed channel the buffered items are still received, front first;
\* a receiver at its recv on a closed channel does not block; and its loop
\* ends only when the channel is closed and empty, every item sent on the
\* channel having then been received in order.
RecvDoesNotBlock ==
  /\ pc1 = "primary_next" /\ ~txOpen["input"] => ENABLED S1PrimaryNext
  /\ pc1 = "feedback_next" /\ ~txOpen["feedback"] => ENABLED S1FeedbackNext
  /\ pc2 = "next" /\ ~txOpen["s1_to_s2"] => ENABLED S2Next
  /\ pc3 = "next" /\ ~txOpen["s2_to_s3"] => ENABLED S3Next

C9_CloseKeepsBuffered ==
  /\ [][\A c \in Channels : txOpen[c] /\ ~txOpen'[c] => chan'[c] = chan[c]]_vars
  /\ [][\A c \in Channels :
          ~txOpen[c] /\ chan'[c] # chan[c] =>
            /\ chan[c] # <<>>
            /\ chan'[c] = Tail(chan[c])
            /\ rcvd'[c] = Append(rcvd[c], Head(chan[c]).id)]_vars
  /\ [][\A c \in Channels :
          rxOpen[c] /\ ~rxOpen'[c] => ~txOpen[c] /\ chan[c] = <<>>]_vars
  /\ [](\A c \in Channels : ~rxOpen[c] => rcvd[c] = sent[c])
  /\ [](ProcessAlive => RecvDoesNotBlock)

\* the input was closed, stage1 received all N records and then the end of
\* the stream
C9_Witness ==
  /\ ~txOpen["input"] /\ ~rxOpen["input"] /\ pc1 = "feedback_next"
  /\ num_records >= 2 /\ Len(rcvd["input"]) = num_records

\* C10: on every channel the records are received in the order they were
\* sent: what was sent is what was received followed by what is buffered.
C10_Fifo == \A c \in Channels : sent[c] = rcvd[c] \o Ids(chan[c])

C10_Witness ==
  \E c \in Channels : Len(rcvd[c]) >= 2 /\ Len(chan[c]) >= 2

\* C11: stage1 returns only when its primary input and its feedback input
\* are both closed and drained, dropping its output as it does; apart from a
\* panic it never drops its output earlier; and once both inputs are closed
\* and drained it does not wait: it can step until it has returned with its
\* output closed.
BothInputsDrained ==
  /\ ~txOpen["input"] /\ chan["input"] = <<>>
  /\ ~txOpen["feedback"] /\ chan["feedback"] = <<>>

C11_Stage1Termination ==
  /\ [][pc1 # "done" /\ pc1' = "done" =>
          BothInputsDrained /\ txOpen["s1_to_s2"] /\ ~txOpen'["s1_to_s2"]]_vars
  /\ [][txOpen["s1_to_s2"] /\ ~txOpen'["s1_to_s2"] /\ pc1' # "panicked" =>
          BothInputsDrained /\ pc1' = "done"]_vars
  /\ [](BothInputsDrained /\ ~Stage1CanStep /\ pc1 \notin {"unspawned", "panicked"} =>
          pc1 = "done" /\ ~txOpen["s1_to_s2"])

\* stage2 panicked after stage1 had reprocessed a record fed back; stage1
\* found its feedback input closed and returned
C11_Witness ==
  pc1 = "done" /\ pc2 = "panicked" /\ feedback_processed >= 1 /\ ~txOpen["s1_to_s2"]

\* C12: stage2 returns only when its input is closed and drained, dropping
\* feedback_tx and its forward output as it does; apart from a panic it drops
\* neither earlier; and with its input closed and drained it has returned,
\* both closed, by the time no thread of the pipeline can step.
Stage2InputDrained == ~txOpen["s1_to_s2"] /\ chan["s1_to_s2"] = <<>>

C12_Stage2Termination ==
  /\ [][pc2 # "done" /\ pc2' = "done" =>
          /\ Stage2InputDrained
          /\ txOpen["feedback"] /\ ~txOpen'["feedback"]
          /\ txOpen["s2_to_s3"] /\ ~txOpen'["s2_to_s3"]]_vars
  /\ [][/\ \/ txOpen["feedback"] /\ ~txOpen'["feedback"]
           \/ txOpen["s2_to_s3"] /\ ~txOpen'["s2_to_s3"]
        /\ pc2' # "panicked"
        => Stage2InputDrained /\ pc2' = "done"]_vars
  /\ [](Stage2InputDrained /\ TimerElapsed /\ pc2 \notin {"unspawned", "panicked"} =>
          pc2 = "done" /\ ~txOpen["feedback"] /\ ~txOpen["s2_to_s3"])

\* stage1 panicked; stage2 drained what stage1 had sent and returned
C12_Witness ==
  /\ pc2 = "done" /\ pc1 = "panicked" /\ forwarded >= 1
  /\ ~txOpen["feedback"] /\ ~txOpen["s2_to_s3"]

\* C13: stage3 returns only when its input is closed and drained, and with
\* its input closed and drained it can always step until it has; the
\* sequence it returns holds, in order, every record it received, which is
\* every record sent to it; and run_pipeline's result is that sequence.
Stage3InputDrained == ~txOpen["s2_to_s3"] /\ chan["s2_to_s3"] = <<>>

C13_Stage3Termination ==
  /\ [][pc3 # "done" /\ pc3' = "done" =>
          Stage3InputDrained /\ results' = results]_vars
  /\ [](pc3 = "done" =>
          Ids(results) = rcvd["s2_to_s3"] /\ rcvd["s2_to_s3"] = sent["s2_to_s3"])
  /\ [](Stage3InputDrained /\ ~Stage3CanStep /\ pc3 \notin {"unspawned", "panicked"} =>
          pc3 = "done")
  /\ [][resultCh' # resultCh /\ resultCh' # <<>> =>
          pc3 = "done" /\ resultCh' = <<results>>]_vars

\* stage2 panicked after forwarding records; stage3 collected them and
\* returned
C13_Witness ==
  pc3 = "done" /\ pc2 = "panicked" /\ Len(results) >= 2 /\ forwarded = Len(results)

\* C14: stage2 holds a record for the feedback channel exactly when, after
\* stage2's do_work has incremented its stage, id mod 10 = 0 and
\* stage < MAX_RETRY_STAGE, and for the forward channel otherwise; the record
\* it holds is the one it received, one stage further; each send puts that
\* record on one channel and leaves the other alone; and every record
\* received has been sent on exactly one of the two, or is still held.
QualifiesForFeedback(record) ==
  record.id % 10 = 0 /\ record.stage < MAX_RETRY_STAGE

C14_Routing ==
  /\ [](pc2 = "send_feedback" => held2 # <<>> /\ QualifiesForFeedback(held2[1]))
  /\ [](pc2 = "send_forward" => held2 # <<>> /\ ~QualifiesForFeedback(held2[1]))
  /\ [][rcvd'["s1_to_s2"] # rcvd["s1_to_s2"] =>
          /\ held2'[1].id = Head(chan["s1_to_s2"]).id
          /\ held2'[1].stage = Head(chan["s1_to_s2"]).stage + 1]_vars
  /\ [][sent'["feedback"] # sent["feedback"] =>
          /\ pc2 = "send_feedback"
          /\ chan'["feedback"] = Append(chan["feedback"], held2[1])
          /\ chan'["s2_to_s3"] = chan["s2_to_s3"] /\ held2' = <<>>]_vars
  /\ [][sent'["s2_to_s3"] # sent["s2_to_s3"] =>
          /\ pc2 = "send_forward"
          /\ chan'["s2_to_s3"] = Append(chan["s2_to_s3"], held2[1])
          /\ chan'["feedback"] = chan["feedback"] /\ held2' = <<>>]_vars
  /\ [](Len(rcvd["s1_to_s2"]) =
          Len(sent["feedback"]) + Len(sent["s2_to_s3"]) + Len(held2))

\* stage2 is about to forward a record with id mod 10 = 0: its stage has
\* reached MAX_RETRY_STAGE
C14_Witness ==
  /\ pc2 = "send_forward" /\ held2[1].id % 10 = 0
  /\ held2[1].stage = MAX_RETRY_STAGE /\ Len(sent["feedback"]) >= 1

\* C15: no record on the feedback channel has a stage of MAX_RETRY_STAGE or
\* more; no id is sent on it more than MAX_RETRY_STAGE times; the j-th time a
\* record is fed back its stage is 2j (so larger each time) and its
\* retry_count j - 1; and a record that stage2 holds with a stage of
\* MAX_RETRY_STAGE or more is held for the forward channel, whatever its id.
C15_RetryCap ==
  /\ [](\A k \in 1..Len(chan["feedback"]) :
          chan["feedback"][k].stage < MAX_RETRY_STAGE)
  /\ [](\A k \in 1..Len(sent["feedback"]) :
          Occurrences(sent["feedback"], sent["feedback"][k]) <= MAX_RETRY_STAGE)
  /\ [][sent'["feedback"] # sent["feedback"] =>
          /\ held2[1].stage = 2 * (Occurrences(sent["feedback"], held2[1].id) + 1)
          /\ held2[1].retry_count = Occurrences(sent["feedback"], held2[1].id)
          /\ held2[1].stage < MAX_RETRY_STAGE]_vars
  /\ [](held2 # <<>> /\ held2[1].stage >= MAX_RETRY_STAGE => pc2 = "send_forward")

\* record 10 was fed back once and has been collected at stage MAX_RETRY_STAGE
C15_Witness ==
  /\ Occurrences(sent["feedback"], 10) = 1
  /\ \E k \in 1..Len(results) :
       results[k].id = 10 /\ results[k].stage = MAX_RETRY_STAGE

\* C16: every run ends (every step makes progress) and ends with main at one
\* of its outcomes; when no thread of the pipeline can step and no result
\* has been sent, main does not wait: it can leave recv_timeout, and does so
\* with the timeout outcome unless the pipeline thread panicked; main takes
\* the timeout outcome only with no result sent or received, and keeps it.
C16_Watchdog ==
  /\ EveryStepProgresses
  /\ [](~AnyCanStep => RunEnded)
  /\ [](pcMain = "recv" /\ resultCh = <<>> /\ TimerElapsed => ENABLED MainRecvTimeout)
  /\ [][pcMain = "recv" /\ resultCh = <<>> /\ pcP # "panicked" /\ pcMain' # pcMain =>
          TimerElapsed /\ pcMain' = "timeout"]_vars
  /\ [][pcMain' = "timeout" => resultCh = <<>> /\ reported = <<>>]_vars
  /\ [][pcMain = "timeout" => pcMain' = "timeout" /\ reported' = <<>>]_vars

\* the watchdog fired with the producer done and every stage waiting for
\* another to close its channel
C16_Witness ==
  /\ pcMain = "timeout" /\ pcP = "join_s1" /\ num_records >= 1
  /\ pc1 = "feedback_next" /\ pc2 = "next" /\ pc3 = "next"

\* C17: main leaves recv_timeout with exactly one of three outcomes and keeps
\* it: success when a result was sent, otherwise abnormal termination when
\* the pipeline thread panicked, otherwise timeout; success comes with the
\* result received, the other two with none; a run that can go no further
\* has one of them; and what main's caller sees differs between any two.
C17_Outcomes ==
  /\ [][pcMain = "recv" /\ pcMain' # pcMain =>
          pcMain' = IF resultCh # <<>> THEN "success"
                    ELSE IF pcP = "panicked" THEN "disconnected" ELSE "timeout"]_vars
  /\ [][RunEnded => pcMain' = pcMain /\ reported' = reported]_vars
  /\ [](~RunEnded => pcMain \in {"start", "recv"} /\ reported = <<>>)
  /\ [](pcMain = "success" => Len(reported) = 1)
  /\ [](pcMain = "timeout" => reported = <<>> /\ resultCh = <<>> /\ pcP # "panicked")
  /\ [](pcMain = "disconnected" => reported = <<>> /\ resultCh = <<>> /\ pcP = "panicked")
  /\ [](~AnyCanStep => RunEnded)
  /\ [](\A a, b \in {"success", "timeout", "disconnected"} :
          a # b => MainReports(a) # MainReports(b))

\* stage2 panicked, the pipeline thread panicked in s2.join(), and main
\* reported the abnormal termination
C17_Witness ==
  pcMain = "disconnected" /\ pcP = "panicked" /\ pc2 = "panicked" /\ pc1 = "done"

\* C18: once a stage has panicked, run_pipeline sends no result and main
\* reports neither success nor timeout; and when the run can go no further,
\* main has reported the abnormal termination.
SomeStagePanicked == "panicked" \in {pc1, pc2, pc3}

C18_FailurePropagation ==
  SomeStagePanicked =>
    /\ resultCh = <<>> /\ reported = <<>>
    /\ pcMain \notin {"success", "timeout"}
    /\ ~AnyCanStep => pcMain = "disconnected"

\* C19: when stage3 receives a record, valid or not, it appends it to results
\* and stays in its loop, counting one more integrity error exactly when the
\* record does not verify; with a record buffered it can always take that
\* step; and once the run can go no further, integrity_errors is the number
\* of collected records that do not verify and validate_batch(results) is
\* the number of collected records that verify and the ids of those that do
\* not, in the order collected.
InvalidAt(records) ==
  {k \in 1..Len(records) :
     records[k].checksum # compute_checksum(records[k].payload)}

C19_IntegrityFailure ==
  /\ [][rcvd'["s2_to_s3"] # rcvd["s2_to_s3"] =>
          /\ results' = Append(results, Head(chan["s2_to_s3"]))
          /\ pc3' = "next"
          /\ integrity_errors' = integrity_errors +
               (IF Head(chan["s2_to_s3"]).checksum
                     # compute_checksum(Head(chan["s2_to_s3"]).payload)
                THEN 1 ELSE 0)]_vars
  /\ [](ProcessAlive /\ pc3 = "next" /\ chan["s2_to_s3"] # <<>> => ENABLED S3Next)
  /\ [](~AnyCanStep =>
          LET invalid == InvalidAt(results)
              batch == validate_batch(results)
          IN  /\ integrity_errors = Cardinality(invalid)
              /\ batch[1] = Len(results) - Cardinality(invalid)
              /\ Len(batch[2]) = Cardinality(invalid)
              /\ \A k \in invalid :
                   batch[2][Cardinality({j \in invalid : j <= k})] = results[k].id)

\* stage3 collected a corrupted record, counted it, and collected two more
C19_Witness ==
  /\ ~AnyCanStep /\ integrity_errors = 1 /\ Len(results) >= 3
  /\ Len(results) - 2 \in InvalidAt(results)
  /\ validate_batch(results) = <<Len(results) - 1, <<results[Len(results) - 2].id>>>>

\* C20: check_completeness(records, N) returns as missing the ids of 1..N
\* that no record has and as duplicates the ids of 1..N that more than one
\* record has, each list in increasing order without repetition; it returns
\* the same for every permutation of records, and the same for records with
\* those of ids outside 1..N left out.
IsIncreasing(q) == \A k \in 1..(Len(q) - 1) : q[k] < q[k + 1]

Elements(q) == {q[k] : k \in 1..Len(q)}

TimesCollected(id) ==
  Cardinality({k \in 1..Len(arg_records) : arg_records[k].id = id})

Permuted(q, p) == [k \in 1..Len(q) |-> q[p[k]]]

C20_Completeness ==
  returned # <<>> =>
    /\ IsIncreasing(returned[1][1]) /\ IsIncreasing(returned[1][2])
    /\ Elements(returned[1][1]) =
         {id \in 1..arg_expected_count : TimesCollected(id) = 0}
    /\ Elements(returned[1][2]) =
         {id \in 1..arg_expected_count : TimesCollected(id) > 1}
    /\ \A p \in Permutations(1..Len(arg_records)) :
         check_completeness(Permuted(arg_records, p), arg_expected_count) = returned[1]
    /\ LET InRange(record) == record.id \in 1..arg_expected_count
       IN  check_completeness(SelectSeq(arg_records, InRange), arg_expected_count)
             = returned[1]

\* three records, out of order, one id twice, one id beyond the expected
\* count: one id is missing and one is a duplicate
C20_Witness ==
  /\ Ids(arg_records) = <<3, 1, 1>> /\ arg_expected_count = 2
  /\ returned = << <<<<2>>, <<1>>>> >>

\* C21: the number of entries of an LRUCache never exceeds its capacity,
\* whatever puts and gets were made.
C21_FixedCapacity == cache.capacity > 0 => LruLen(cache) <= cache.capacity

\* the entries a cache holds, as the set of its keys with their values
Resident(c) ==
  {[key |-> k, value |-> get_value(c.list, c.map[k])] : k \in DOMAIN c.map}

\* C22: the cache behaves as a reference LRU cache: it holds the same keys
\* with the same values (so a put of a new key into a full cache has evicted
\* exactly the least recently used one), every get returns what the
\* reference returns, and main's script ends with 15 hits, 4 misses and 0
\* errors.
C22_LruEviction ==
  cache.capacity > 0 =>
    /\ Resident(cache) = {[key |-> reference[k].key, value |-> <<reference[k].value>>] :
                            k \in 1..Len(reference)}
    /\ got = ref_got
    /\ script_pc > Len(Script) => hits = 15 /\ misses = 4 /\ errors = 0

\* the entries of a queue, as a set
PqEntries(q) == {q.data[k] : k \in 1..Len(q.data)}

\* C23: extract_min on a non-empty queue removes and returns an entry whose
\* priority is at most that of every entry left in the queue, and returns
\* None on an empty queue.
C23_ExtractMin ==
  [][pq_op' = "extract_min" =>
       IF pq.data = <<>>
       THEN extracted' = <<>> /\ pq'.data = <<>>
       ELSE /\ extracted' # <<>>
            /\ extracted'[1] \in PqEntries(pq)
            /\ PqEntries(pq') = PqEntries(pq) \ {extracted'[1]}
            /\ \A e \in PqEntries(pq') : extracted'[1].priority <= e.priority]_vars

\* the weight of the edge from u to v, if the graph has one
EdgeWeights(adj, u, v) ==
  {neighbors(adj, u)[k].weight : k \in {j \in 1..Len(neighbors(adj, u)) :
                                          neighbors(adj, u)[j].to = v}}

IsPath(adj, p) ==
  /\ p # <<>>
  /\ \A k \in 1..(Len(p) - 1) : EdgeWeights(adj, p[k], p[k + 1]) # {}

Least(S) == CHOOSE x \in S : \A y \in S : x <= y

RECURSIVE PathCost(_, _)
PathCost(adj, p) ==
  IF Len(p) <= 1 THEN 0
  ELSE Least(EdgeWeights(adj, p[1], p[2])) + PathCost(adj, Tail(p))

\* the directed paths without a repeated node from src to tgt (with weights
\* that are not negative, a cheapest path is among them)
RECURSIVE PathsFrom(_, _, _)
PathsFrom(adj, p, tgt) ==
  LET last == p[Len(p)]
      onward == {v \in 0..(num_nodes(adj) - 1) :
                   /\ EdgeWeights(adj, last, v) # {}
                   /\ \A k \in 1..Len(p) : p[k] # v}
  IN  IF last = tgt THEN {p}
      ELSE UNION {PathsFrom(adj, Append(p, v), tgt) : v \in onward}

\* C24: dijkstra returns the least total weight over the directed paths from
\* source to target with a path of that cost, None when there is none; on the
\* benchmark graph, cost 7 with the path A -> B -> D -> E from A to E.
C24_Dijkstra ==
  dj_pc = "returned" =>
    LET paths == PathsFrom(graph, <<source>>, target)
    IN  /\ IF paths = {} THEN dj_result = <<>>
           ELSE /\ dj_result # <<>>
                /\ dj_result[1][1] = Least({PathCost(graph, p) : p \in paths})
                /\ dj_result[1][2] \in paths
                /\ PathCost(graph, dj_result[1][2]) = dj_result[1][1]
        /\ (graph = build_benchmark_graph /\ source = 0 /\ target = 4)
             => dj_result = << <<7, <<0, 1, 3, 4>> >> >>

\* C25: decoding the encoding of a value gives the value back and reads as
\* many bytes as the encoding has; decoding the encoding of a sequence of
\* values gives the sequence back.
C25_VarintRoundTrip ==
  vi_pc = "done" =>
    /\ decoded[1].value = original
    /\ decoded[1].bytes_read = Len(encoded)
    /\ decoded_values = values

\* the ids of the records the stages took from their channels, one for each
\* processing step: a stage runs do_work once on each record it takes
Processed == rcvd["input"] \o rcvd["s1_to_s2"] \o rcvd["feedback"]

\* C26: a record's stage counter is 0 when the record is created and still
\* unprocessed, and at any time equals the number of processing steps (the
\* do_work calls of stage1's two loops and of stage2) applied to the record.
C26_StageCounter ==
  [](LET fresh == heldP \o chan["input"]
         records == InFlight
         steps == Processed
     IN  /\ \A k \in 1..Len(fresh) : fresh[k].stage = 0
         /\ \A k \in 1..Len(records) :
              records[k].stage = Occurrences(steps, records[k].id))

C26_Witness ==
  \E k \in 1..Len(results) :
    /\ results[k].id = 10 /\ results[k].stage = 4
    /\ Occurrences(rcvd["feedback"], 10) = 1
    /\ Occurrences(rcvd["s1_to_s2"], 10) = 2
    /\ Occurrences(rcvd["input"], 10) = 1

\* " [stage1-redo:s<stage>:r<retry_count>]", the marker stage1's feedback loop
\* appends to a payload
RedoMarker(stage, retry_count) ==
  <<32, 91>> \o StrStage1Redo \o <<58, 115>> \o FormatDec(stage)
             \o <<58, 114>> \o FormatDec(retry_count) \o <<93>>

\* C27: a record's retry count is the number of times stage1 has received it
\* from the feedback channel (0 for a record that only came through the
\* primary input), and it is incremented before stage1's transform: the
\* marker appended on a receipt from feedback carries the incremented count.
C27_RetryCount ==
  /\ [](LET records == InFlight
            retried == rcvd["feedback"]
        IN  \A k \in 1..Len(records) :
              records[k].retry_count = Occurrences(retried, records[k].id))
  /\ [][pc1 = "feedback_next" /\ pc1' = "feedback_send" =>
          LET record == Front(chan["feedback"])
          IN  /\ held1'[1].retry_count = record.retry_count + 1
              /\ held1'[1].payload =
                   record.payload \o RedoMarker(record.stage, record.retry_count + 1)]_vars

C27_Witness ==
  /\ pc1 = "feedback_send"
  /\ held1[1].id = 10 /\ held1[1].retry_count = 1
  /\ rcvd["feedback"] = <<10>>
  /\ Len(rcvd["input"]) > 10

\* run_pipeline is past its drop(input_tx)
InputClosedByCoordinator == pcP \in {"join_s1", "join_s2", "join_s3", "done"}

\* C28: the three stages are started before the first record is sent;
\* records go into the primary input in the order of their ids 1, 2, ..,
\* each created with stage 0 and retry count 0; run_pipeline closes the
\* primary input only after all num_records records were sent; and it passes
\* each join, and returns stage3's sequence, only after the stages joined so
\* far have terminated.
C28_CoordinatorOrdering ==
  /\ [](sent["input"] # <<>> => "unspawned" \notin {pc1, pc2, pc3})
  /\ [](sent["input"] = [k \in 1..Len(sent["input"]) |-> k])
  /\ [](heldP # <<>> =>
          /\ heldP[1].id = Len(sent["input"]) + 1
          /\ heldP[1].stage = 0 /\ heldP[1].retry_count = 0)
  /\ [](InputClosedByCoordinator =>
          Len(sent["input"]) = num_records /\ ~txOpen["input"])
  /\ [](pcP \in {"join_s2", "join_s3", "done"} => pc1 = "done")
  /\ [](pcP \in {"join_s3", "done"} => pc2 = "done")
  /\ [](pcP = "done" => pc3 = "done" /\ resultCh \o reported = <<results>>)
  /\ [][pcP = "close" /\ pcP' # "close" => txOpen["input"] /\ ~txOpen'["input"]]_vars

C28_Witness ==
  /\ pcP = "join_s2" /\ pc1 = "done" /\ pc2 = "panicked"
  /\ num_records >= 10 /\ Len(sent["input"]) = num_records
  /\ ~txOpen["input"]

\* the position of the thread that owns a channel's sender: run_pipeline for
\* the primary input, stage1 for s1_to_s2, stage2 for feedback and s2_to_s3
SenderPc(c) ==
  CASE c = "input" -> pcP
    [] c = "s1_to_s2" -> pc1
    [] OTHER -> pc2

\* C29: nothing is sent on a channel after its sender was dropped; a channel
\* is closed once (it stays closed), and it is closed and sent on only by
\* steps of the one thread that owns its sender.
C29_CloseForbidsSends ==
  [][\A c \in Channels :
       /\ ~txOpen[c] => /\ ~txOpen'[c]
                        /\ sent'[c] = sent[c]
                        /\ Len(chan'[c]) <= Len(chan[c])
       /\ txOpen[c] /\ ~txOpen'[c] => SenderPc(c)' # SenderPc(c)
       /\ sent'[c] # sent[c] => SenderPc(c)' # SenderPc(c)]_vars

C29_Witness ==
  /\ \A c \in Channels : ~txOpen[c]
  /\ pc1 = "done" /\ pc2 = "panicked" /\ pc3 = "done"
  /\ Len(sent["feedback"]) = 1 /\ Len(sent["s1_to_s2"]) > Len(sent["input"])

\* C30: stage3's result sequence is, in order, the records stage3 has
\* received so far from the stage2->stage3 channel (arrival order, which is
\* not the order of the ids), and it only grows by appending: what it holds
\* never changes.
C30_ArrivalOrder ==
  /\ [](Ids(results) = rcvd["s2_to_s3"])
  /\ [][results' # results =>
          /\ chan["s2_to_s3"] # <<>>
          /\ results' = Append(results, Front(chan["s2_to_s3"]))]_vars

C30_Witness ==
  /\ Len(results) = 11
  /\ results[10].id = 11 /\ results[11].id = 10
  /\ rcvd["s2_to_s3"] = <<1, 2, 3, 4, 5, 6, 7, 8, 9, 11, 10>>

\* C31: the checksum is the sum of the payload's bytes (far below 2^32 for
\* any payload of under 2^24 bytes, so the sum is the sum modulo 2^32): it is
\* the same for every permutation of the payload's bytes, and verify accepts
\* a record whose payload bytes were reordered while its checksum was kept.
SumByValue(data) ==
  LET Count(b) == Cardinality({k \in 1..Len(data) : data[k] = b})
      RECURSIVE Upto(_)
      Upto(b) == IF b = 0 THEN 0 ELSE b * Count(b) + Upto(b - 1)
  IN  Upto(MaxByte)

C31_ChecksumOrderIndependent ==
  LET built == arg_records[1]
      reordered == arg_records[2]
  IN  /\ compute_checksum(reordered.payload) = SumByValue(reordered.payload)
      /\ \A p \in Permutations(1..Len(built.payload)) :
           compute_checksum(Permuted(built.payload, p)) = built.checksum
      /\ reordered.checksum = built.checksum
      /\ verify(reordered)
      /\ returned # <<>> => returned[1]

\* verify was called on a record whose payload is no longer in the order it
\* was built in
C31_Witness ==
  /\ returned = <<TRUE>>
  /\ arg_records[1].payload = <<0, 1, MaxByte>>
  /\ arg_records[2].payload = <<MaxByte, 1, 0>>

\* C32: stage1 holds the sender of stage1->stage2 until the feedback channel
\* is closed and drained, and stage2 holds the sender of the feedback channel
\* until stage1->stage2 is closed and drained, so neither is ever dropped:
\* for every N and every capacity explored no stage ever terminates,
\* run_pipeline gets no further than its first join and returns nothing, a
\* run that can go no further has every thread waiting for another, and the
\* only outcome main reports is the timeout.
ClosureWait ==
  /\ pcP = "join_s1" /\ ~txOpen["input"]
  /\ pc1 = "feedback_next" /\ chan["feedback"] = <<>> /\ txOpen["feedback"]
  /\ pc2 = "next" /\ chan["s1_to_s2"] = <<>> /\ txOpen["s1_to_s2"]
  /\ pc3 = "next" /\ chan["s2_to_s3"] = <<>> /\ txOpen["s2_to_s3"]

ChannelOps ==
  LET Ops(c) == 2 * Len(sent[c]) + Len(rcvd[c])
  IN  Ops("input") + Ops("s1_to_s2") + Ops("feedback") + Ops("s2_to_s3")

StepCount ==
  MainRank + PipelineRank + StageRank(pc1) + StageRank(pc2) + StageRank(pc3)
  + Len(heldP) + ChannelOps

C33_DeadlockThreshold ==
  /\ [][StepCount' > StepCount]_vars
  /\ [][CircularWait => CircularWait']_vars
  /\ [](CircularWait => num_records >= DeadlockThreshold(channel_bound))
  /\ [](num_records >= DeadlockThreshold(channel_bound) =>
          pc1 \in {"unspawned", "primary_next", "primary_send"})
  /\ [](TimerElapsed /\ pcP # "unspawned" =>
          IF num_records >= DeadlockThreshold(channel_bound)
          THEN CircularWait /\ pc1 = "primary_send"
          ELSE pc1 = "feedback_next" /\ ~txOpen["input"] /\ chan["input"] = <<>>)

\* the least run that deadlocks: every record was sent to stage1, which is
\* blocked holding the last one
C33_Witness ==
  /\ num_records = DeadlockThreshold(channel_bound)
  /\ CircularWait /\ pcP = "join_s1" /\ held1 # <<>> /\ held1[1].id = num_records
  /\ pcMain = "timeout"

\* C34: when N is below the deadlock threshold (N <= 10*(C+1) + C), under
\* fair scheduling every record of 1..N is eventually in Collection's
\* sequence, and no record is ever in it twice; the stages are then blocked
\* on their receives for good (whenever no thread of the pipeline can step,
\* all N records are collected and each stage waits on an empty, open
\* channel) and the sequence is never returned to the coordinator.
AllCollected ==
  /\ Len(results) = num_records
  /\ {results[k].id : k \in 1..Len(results)} = 1..num_records

BelowThreshold == num_records < DeadlockThreshold(channel_bound)

C34_EventualCollection ==
  /\ [](LET ids == Ids(results)
        IN  \A k \in 1..Len(ids) : Occurrences(ids, ids[k]) = 1)
  /\ (BelowThreshold => <>AllCollected)
  /\ [][AllCollected => AllCollected']_vars
  /\ [](resultCh = <<>> /\ reported = <<>>)
  /\ [](BelowThreshold /\ TimerElapsed /\ pcP # "unspawned" => AllCollected /\ ClosureWait)

\* one record short of the deadlock: stage2 was blocked on the full feedback
\* channel, and yet every record is collected and the stages wait
C34_Witness ==
  /\ num_records = DeadlockThreshold(channel_bound) - 1
  /\ AllCollected /\ ClosureWait /\ pcMain = "timeout"
  /\ Len(rcvd["feedback"]) = channel_bound + 1

\* C35: with MAX_RETRY_STAGE = 4 a record with id mod 10 = 0 goes through the
\* feedback channel exactly once before it is forwarded: no id is sent on the
\* feedback channel twice, every id divisible by 10 sent to stage3 was sent
\* on the feedback channel once before, every record stage2 is sending or has
\* buffered on the feedback channel has id mod 10 = 0, stage 2 and retry
\* count 0, and every collected record has either id mod 10 # 0, stage 2 and
\* retry count 0, or id mod 10 = 0, stage 4 and retry count 1.
FedBack(record) ==
  record.id % 10 = 0 /\ record.stage = 2 /\ record.retry_count = 0

CollectedAs(record) ==
  IF record.id % 10 = 0
  THEN record.stage = MAX_RETRY_STAGE /\ record.retry_count = 1
  ELSE record.stage = 2 /\ record.retry_count = 0

C35_SingleRetry ==
  [](LET fb == sent["feedback"]
         fwd == sent["s2_to_s3"]
     IN  /\ \A k \in 1..Len(fb) : Occurrences(fb, fb[k]) = 1
         /\ \A k \in 1..Len(fwd) :
              fwd[k] % 10 = 0 => Occurrences(fb, fwd[k]) = 1
         /\ \A k \in 1..Len(chan["feedback"]) : FedBack(chan["feedback"][k])
         /\ pc2 = "send_feedback" => FedBack(held2[1])
         /\ \A k \in 1..Len(results) : CollectedAs(results[k]))

\* a record that was not fed back and one that was are both collected
C35_Witness ==
  /\ sent["feedback"] = <<2 * CHANNEL_BOUND>>
  /\ \E j, k \in 1..Len(results) :
       /\ results[j].id % 10 # 0 /\ results[j].stage = 2
       /\ results[k].id % 10 = 0 /\ results[k].stage = MAX_RETRY_STAGE
       /\ results[k].retry_count = 1

\* C36: the order of Collection's sequence does not depend on the
\* interleaving: in every reachable state the ids not divisible by 10 are in
\* increasing order, the ids divisible by 10 are in increasing order, every
\* id not divisible by 10 comes before every id divisible by 10, and a
\* record that was fed back is collected only after stage1 has sent all N
\* primary records downstream.  (The sequence only grows at its end, so
\* each pair of its ids is compared in the state where the later of the two
\* is the last.)
Retried(id) == id % 10 = 0

InCollectionOrder(earlier, later) ==
  /\ (Retried(earlier) <=> Retried(later)) => earlier < later
  /\ ~(Retried(earlier) /\ ~Retried(later))

C36_CollectionOrder ==
  /\ [][results' # results => results' = Append(results, results'[Len(results')])]_vars
  /\ [](LET ids == Ids(results)
            n == Len(ids)
        IN  /\ \A j \in 1..(n - 1) : InCollectionOrder(ids[j], ids[n])
            /\ (n > 0 /\ Retried(ids[n])) =>
                 records_sent = num_records /\ pc1 \in {"feedback_next", "feedback_send"})

\* a run of 21 records through channels of capacity 1 has collected them
\* all: record 21 before record 10, and record 10 before record 20
C36_Witness ==
  /\ num_records = DeadlockThreshold(channel_bound) - 1
  /\ Len(results) = num_records
  /\ \E j \in 1..Len(results) :
       /\ j + 2 = Len(results)
       /\ results[j].id = num_records
       /\ results[j + 1].id = 10
       /\ results[j + 2].id = 20

\* C37: in the runs without induced faults no send ever fails: a channel's
\* receiver is dropped only when its sender is gone, so a thread at a send
\* always finds the receiver alive, every send that completes buffers its
\* record, no thread panics, and main never reports Disconnected.
AtSend(c) ==
  CASE c = "input" -> pcP = "send"
    [] c = "s1_to_s2" -> pc1 \in {"primary_send", "feedback_send"}
    [] c = "feedback" -> pc2 = "send_feedback"
    [] c = "s2_to_s3" -> pc2 = "send_forward"

C37_NoSendFails ==
  /\ [](\A c \in Channels : ~rxOpen[c] => ~txOpen[c])
  /\ [](\A c \in Channels : AtSend(c) => rxOpen[c] /\ txOpen[c])
  /\ [][\A c \in Channels :
          AtSend(c) /\ ~AtSend(c)' => Len(sent'[c]) = Len(sent[c]) + 1]_vars
  /\ []("panicked" \notin {pcP, pc1, pc2, pc3})
  /\ [](pcMain # "disconnected")

\* stage1 has dropped the receiver of the closed input channel and is
\* sending the record that was fed back while stage2 and stage3 wait
C37_Witness ==
  /\ ~rxOpen["input"] /\ ~txOpen["input"]
  /\ AtSend("s1_to_s2") /\ pc1 = "feedback_send" /\ held1[1].retry_count = 1
  /\ pc2 = "next" /\ pc3 = "next"

\* C38: the list of the cache is well formed after every operation: head has
\* no prev, tail has no next, a live node's next has that node as its prev,
\* tail is Some whenever len > 0, and the walk from head along next visits
\* no slot twice, visits exactly the len live nodes and ends at tail.
Live(list) == {k \in 1..Len(list.nodes) : list.nodes[k] # <<>>}

\* the slots met from `at` along next, for at most `fuel` steps
RECURSIVE Forward(_, _, _)
Forward(list, at, fuel) ==
  IF at = NoneIdx \/ fuel = 0 \/ at \notin Live(list) THEN <<>>
  ELSE <<at>> \o Forward(list, list.nodes[at][1].next, fuel - 1)

WellFormed(list) ==
  LET walk == Forward(list, list.head, Len(list.nodes) + 1)
  IN  /\ list.head # NoneIdx =>
           list.head \in Live(list) /\ list.nodes[list.head][1].prev = NoneIdx
      /\ list.tail # NoneIdx =>
           list.tail \in Live(list) /\ list.nodes[list.tail][1].next = NoneIdx
      /\ \A n \in Live(list) :
           LET m == list.nodes[n][1].next
           IN  m # NoneIdx => m \in Live(list) /\ list.nodes[m][1].prev = n
      /\ list.len > 0 => list.tail # NoneIdx
      /\ \A j, k \in 1..Len(walk) : walk[j] = walk[k] => j = k
      /\ Len(walk) = list.len
      /\ {walk[k] : k \in 1..Len(walk)} = Live(list)
      /\ walk # <<>> => walk[Len(walk)] = list.tail

C38_ListWellFormed == WellFormed(cache.list)

====
